---- MODULE Spec2Model ----
(***************************************************************************)
(* Cursor-based sequence containers of cpp-dsa: the array-backed AList,    *)
(* the linked LList with its header node, and the index-addressed Vector.  *)
(* The element type is int, as in the unit tests.                          *)
(*                                                                         *)
(* A program constructs either the pair (AList, LList), which it then      *)
(* drives with the same List calls, or a Vector.  `live' names the         *)
(* constructed objects.  A call that may throw is an operator giving the   *)
(* container afterwards and the result (the value returned or the          *)
(* exception); the const reads getValue, at, front and back give a result  *)
(* only.  A call that dereferences a null pointer has undefined behaviour: *)
(* its result says so and the program takes no step with it.               *)
(*                                                                         *)
(* A second AList, LList and Vector (alist2, llist2, vec2) exist in the    *)
(* programs that copy a container or compare two of them; the nodes of     *)
(* both LLists live in the one heap.                                       *)
(*                                                                         *)
(* Two further programs use the same variables.  One owns up to two LList  *)
(* objects and constructs, copies, assigns, moves and destroys them, so    *)
(* that every node of the heap can be traced to the list that allocated    *)
(* it.  The other starts from an AList or a Vector that is already full,   *)
(* of any capacity std::size_t can hold, and adds elements to it.          *)
(*                                                                         *)
(* The standalone LinkedList of int (linked_list.h) is the object linked;  *)
(* its nodes live in the same heap.  The program that drives it keeps, in  *)
(* kept, the integer sequence its calls are meant to produce.              *)
(***************************************************************************)
EXTENDS Integers, Sequences, FiniteSets, TLC

VARIABLES alist, llist, heap, vec, live, alist2, llist2, vec2, kept, ops, linked

\* The second objects, what the program kept of an object, its calls since,
\* and the standalone LinkedList.
second == <<alist2, llist2, vec2, kept, ops, linked>>

vars == <<alist, llist, heap, vec, live, second>>

(***************************************************************************)
(* Bounds of the model.                                                    *)
(***************************************************************************)
\* Longest list / vector the model builds.
MaxLen == 3
\* Longest list / vector a copy is taken of (and the longest list of the
\* program that owns two LLists).
MaxCopyLen == 2
\* Calls made after a copy; constructions, assignments and destructions of
\* the program that owns two LLists; calls made on a full container.
MaxOps == 2
\* Largest element value stored (elements are 1..MaxElem; 0 is int{}).
MaxElem == 2
\* Width in bits of the modelled std::size_t.
SizeBits == 6

Elems == 1..MaxElem
\* Arguments tried for moveToPos / at: every valid one and an invalid one.
Positions == 0..(MaxLen + 1)
\* Node addresses: room for two lists of a header, MaxLen elements and a spare.
NodeIds == 1..(2 * MaxLen + 4)
SizeModulus == 2 ^ SizeBits

(***************************************************************************)
(* Values shared by the containers.                                        *)
(***************************************************************************)
\* int{} : the value of a value-initialised element.
DefaultE == 0
\* nullptr
Null == 0

\* A call that returned normally, with and without a value.
Ok(v) == [status |-> "ok", value |-> v]
Void == [status |-> "ok"]
\* A call that threw std::out_of_range.
OutOfRange == [status |-> "out_of_range"]
\* A call that dereferenced a null pointer (undefined behaviour).
NullDeref == [status |-> "null_dereference"]

\* std::make_unique<E[]>(n): n value-initialised slots (slot i is index i+1).
MakeArray(n) == [i \in 1..n |-> DefaultE]

(***************************************************************************)
(* AList<int>                                                              *)
(***************************************************************************)
AList_DEFAULT_CAPACITY == 10
AList_GROWTH_FACTOR == 2

\* Initial capacities the constructor is called with.
InitCaps == {0, 1, 2, AList_DEFAULT_CAPACITY}

AList_new(initialCapacity) ==
    [listArray_ |-> MakeArray(initialCapacity), capacity_ |-> initialCapacity,
     size_ |-> 0, curr_ |-> 0]

\* for (i = 0; i < size_; ++i) newArray[i] = std::move(listArray_[i]);
\* The loop writes slots i..n-1 of the new array (indices i+1..n here), each
\* from the same slot of the old one, and no other slot.
MoveElements(newArray, oldArray, i, n) ==
    [j \in DOMAIN newArray |-> IF i < j /\ j <= n THEN oldArray[j] ELSE newArray[j]]

AList_resize(l, newCapacity) ==
    LET nc == IF newCapacity < l.size_ THEN l.size_ ELSE newCapacity
        newArray == MoveElements(MakeArray(nc), l.listArray_, 0, l.size_)
    IN  [l EXCEPT !.listArray_ = newArray, !.capacity_ = nc]

AList_ensureCapacity(l) ==
    IF l.size_ >= l.capacity_
    THEN LET doubled == (l.capacity_ * AList_GROWTH_FACTOR) % SizeModulus
             newCapacity == IF doubled <= l.capacity_
                            THEN (l.capacity_ + 1) % SizeModulus
                            ELSE doubled
         IN  AList_resize(l, newCapacity)
    ELSE l

\* Mutant: the cursor is not reset.
AList_clear_keepsCursor(l) ==
    [l EXCEPT !.listArray_ = MakeArray(l.capacity_), !.size_ = 0]

AList_clear(l) ==
    [l EXCEPT !.listArray_ = MakeArray(l.capacity_), !.size_ = 0, !.curr_ = 0]

\* Mutant: the shift stops one slot early, so the element at the cursor is overwritten.
ShiftRight_stopsEarly(arr, i, curr) ==
    [j \in DOMAIN arr |-> IF curr + 2 < j /\ j <= i + 1 THEN arr[j - 1] ELSE arr[j]]

\* for (i = size_; i > curr_; --i) listArray_[i] = std::move(listArray_[i - 1]);
\* Going down from i, each slot written is read no more: slots curr+1..i
\* (indices curr+2..i+1 here) end with what the slot below them held.
ShiftRight(arr, i, curr) ==
    [j \in DOMAIN arr |-> IF curr + 1 < j /\ j <= i + 1 THEN arr[j - 1] ELSE arr[j]]

\* Mutant: the cursor moves past the inserted element.
AList_insert_advancesCursor(l, item) ==
    LET g == AList_ensureCapacity(l)
        shifted == ShiftRight(g.listArray_, g.size_, g.curr_)
    IN  [g EXCEPT !.listArray_ = [shifted EXCEPT ![g.curr_ + 1] = item],
                  !.size_ = g.size_ + 1, !.curr_ = g.curr_ + 1]

AList_insert(l, item) ==
    LET g == AList_ensureCapacity(l)
        shifted == ShiftRight(g.listArray_, g.size_, g.curr_)
    IN  [g EXCEPT !.listArray_ = [shifted EXCEPT ![g.curr_ + 1] = item],
                  !.size_ = g.size_ + 1]

\* Mutant: a cursor at the end stays at the end.
AList_append_keepsEnd(l, item) ==
    LET g == AList_ensureCapacity(l)
    IN  [g EXCEPT !.listArray_ = [g.listArray_ EXCEPT ![g.size_ + 1] = item],
                  !.size_ = g.size_ + 1,
                  !.curr_ = IF g.curr_ = g.size_ THEN g.size_ + 1 ELSE g.curr_]

AList_append(l, item) ==
    LET g == AList_ensureCapacity(l)
    IN  [g EXCEPT !.listArray_ = [g.listArray_ EXCEPT ![g.size_ + 1] = item],
                  !.size_ = g.size_ + 1]

\* for (i = curr_; i < size_ - 1; ++i) listArray_[i] = std::move(listArray_[i + 1]);
\* Going up from i, each slot read is not yet written: slots i..size-2
\* (indices i+1..size-1 here) end with what the slot above them held.
ShiftLeft(arr, i, size) ==
    [j \in DOMAIN arr |-> IF i < j /\ j <= size - 1 THEN arr[j + 1] ELSE arr[j]]

\* Mutant: the returned item is read after the shift, so it is the following element.
AList_remove_readsAfterShift(l) ==
    IF l.curr_ >= l.size_
    THEN [list |-> l, res |-> OutOfRange]
    ELSE [list |-> [l EXCEPT !.listArray_ = ShiftLeft(l.listArray_, l.curr_, l.size_),
                             !.size_ = l.size_ - 1],
          res |-> Ok(ShiftLeft(l.listArray_, l.curr_, l.size_)[l.curr_ + 1])]

\* remove(): the list afterwards and the value returned or the exception.
AList_remove(l) ==
    IF l.curr_ >= l.size_
    THEN [list |-> l, res |-> OutOfRange]
    ELSE [list |-> [l EXCEPT !.listArray_ = ShiftLeft(l.listArray_, l.curr_, l.size_),
                             !.size_ = l.size_ - 1],
          res |-> Ok(l.listArray_[l.curr_ + 1])]

AList_moveToStart(l) == [l EXCEPT !.curr_ = 0]

\* Mutant: the cursor is put on the last element instead of past it.
AList_moveToEnd_onLast(l) == [l EXCEPT !.curr_ = IF l.size_ > 0 THEN l.size_ - 1 ELSE 0]

AList_moveToEnd(l) == [l EXCEPT !.curr_ = l.size_]

\* Mutant: the cursor is decremented without the test for the start.
AList_prev_unchecked(l) == [l EXCEPT !.curr_ = (l.curr_ - 1) % SizeModulus]

AList_prev(l) == IF l.curr_ > 0 THEN [l EXCEPT !.curr_ = l.curr_ - 1] ELSE l

\* Mutant: the bound test lets the cursor step past the end.
AList_next_pastEnd(l) == IF l.curr_ <= l.size_ THEN [l EXCEPT !.curr_ = l.curr_ + 1] ELSE l

AList_next(l) == IF l.curr_ < l.size_ THEN [l EXCEPT !.curr_ = l.curr_ + 1] ELSE l

AList_length(l) == l.size_

AList_currPos(l) == l.curr_

AList_moveToPos(l, pos) ==
    IF pos > l.size_
    THEN [list |-> l, res |-> OutOfRange]
    ELSE [list |-> [l EXCEPT !.curr_ = pos], res |-> Void]

\* Mutant: the bound test is off by one and rejects the last element.
AList_getValue_rejectsLast(l) ==
    IF l.curr_ + 1 >= l.size_ THEN OutOfRange ELSE Ok(l.listArray_[l.curr_ + 1])

AList_getValue(l) ==
    IF l.curr_ >= l.size_ THEN OutOfRange ELSE Ok(l.listArray_[l.curr_ + 1])

AList_capacity(l) == l.capacity_

AList_reserve(l, n) == IF n > l.capacity_ THEN AList_resize(l, n) ELSE l

\* Mutant: the capacity shrinks to size_ even when that is 0.
AList_shrink_to_fit_exact(l) ==
    IF l.capacity_ > l.size_ THEN AList_resize(l, l.size_) ELSE l

AList_shrink_to_fit(l) ==
    IF l.capacity_ > l.size_
    THEN AList_resize(l, IF l.size_ > 0 THEN l.size_ ELSE 1)
    ELSE l

\* std::copy_n(src, n, dst): the first n slots of src copied into dst.
RECURSIVE CopyN(_, _, _, _)
CopyN(dst, src, i, n) ==
    IF i < n
    THEN CopyN([dst EXCEPT ![i + 1] = src[i + 1]], src, i + 1, n)
    ELSE dst

\* AList(const AList& other)
AList_copy(other) ==
    [listArray_ |-> CopyN(MakeArray(other.capacity_), other.listArray_, 0, other.size_),
     capacity_ |-> other.capacity_, size_ |-> other.size_, curr_ |-> other.curr_]

\* operator=(const AList& other); same: this == &other.
AList_copyAssign(this, other, same) ==
    IF same
    THEN this
    ELSE [this EXCEPT
            !.listArray_ = CopyN(MakeArray(other.capacity_), other.listArray_, 0, other.size_),
            !.capacity_ = other.capacity_, !.size_ = other.size_, !.curr_ = other.curr_]

\* Mutant: the moved-from list keeps its size_.
AList_moveFrom_keepsSize(other) ==
    [list |-> other,
     other |-> [other EXCEPT !.listArray_ = MakeArray(0), !.capacity_ = 0, !.curr_ = 0]]

\* AList(AList&& other): the new list, and other afterwards (its
\* listArray_ moved from, hence null).
AList_moveFrom(other) ==
    [list |-> other,
     other |-> [other EXCEPT !.listArray_ = MakeArray(0), !.capacity_ = 0,
                             !.size_ = 0, !.curr_ = 0]]

\* operator=(AList&& other): this and other afterwards.
AList_moveAssign(this, other, same) ==
    IF same
    THEN [list |-> this, other |-> other]
    ELSE [list |-> [this EXCEPT !.listArray_ = other.listArray_,
                                !.capacity_ = other.capacity_,
                                !.size_ = other.size_, !.curr_ = other.curr_],
          other |-> [other EXCEPT !.listArray_ = MakeArray(0), !.capacity_ = 0,
                                  !.size_ = 0, !.curr_ = 0]]

(***************************************************************************)
(* Link<int> and LList<int>.  heap maps the address of every allocated     *)
(* node to its fields; a list is its four members.                         *)
(***************************************************************************)
\* new Link<E>(...): the address handed out is the lowest free one.
NewNode(h) == CHOOSE n \in NodeIds \ DOMAIN h : \A m \in NodeIds \ DOMAIN h : n <= m

\* The heap with node n allocated (or overwritten) holding elem and nextPtr.
Link(h, n, elem, nextPtr) ==
    [m \in DOMAIN h \cup {n} |->
        IF m = n THEN [element |-> elem, next |-> nextPtr] ELSE h[m]]

\* delete n
Delete(h, n) == [m \in DOMAIN h \ {n} |-> h[m]]

LList_init(h) ==
    LET n == NewNode(h)
    IN  [list |-> [head_ |-> n, tail_ |-> n, curr_ |-> n, size_ |-> 0],
         heap |-> Link(h, n, DefaultE, Null)]

\* while (current != nullptr) { next = current->next; delete current; current = next; }
RECURSIVE DeleteChain(_, _)
DeleteChain(h, current) ==
    IF current # Null
    THEN DeleteChain(Delete(h, current), h[current].next)
    ELSE h

LList_removeAll(l, h) ==
    [list |-> [head_ |-> Null, tail_ |-> Null, curr_ |-> Null, size_ |-> 0],
     heap |-> DeleteChain(h, l.head_)]

LList_new(h) == LList_init(h)

LList_clear(l, h) == LList_init(LList_removeAll(l, h).heap)

\* Mutant: tail_ is not moved when the node is linked after the last node.
LList_insert_staleTail(l, h, item) ==
    LET n == NewNode(h)
        h1 == Link(h, n, item, h[l.curr_].next)
        h2 == [h1 EXCEPT ![l.curr_].next = n]
    IN  [list |-> [l EXCEPT !.size_ = l.size_ + 1], heap |-> h2, res |-> Void]

\* insert(): the list and heap afterwards; curr_->next on a null curr_ is
\* a null dereference.
LList_insert(l, h, item) ==
    IF l.curr_ = Null
    THEN [list |-> l, heap |-> h, res |-> NullDeref]
    ELSE LET n == NewNode(h)
             h1 == Link(h, n, item, h[l.curr_].next)
             h2 == [h1 EXCEPT ![l.curr_].next = n]
         IN  [list |-> [l EXCEPT !.tail_ = IF l.tail_ = l.curr_ THEN h2[l.curr_].next
                                                                ELSE l.tail_,
                                 !.size_ = l.size_ + 1],
              heap |-> h2,
              res |-> Void]

\* Mutant: the new node is linked after the cursor node instead of the last node.
LList_append_afterCursor(l, h, item) ==
    LET n == NewNode(h)
        h1 == Link(h, n, item, Null)
        h2 == [h1 EXCEPT ![l.curr_].next = n]
    IN  [list |-> [l EXCEPT !.tail_ = h2[l.curr_].next, !.size_ = l.size_ + 1],
         heap |-> h2,
         res |-> Void]

\* append(): the list and heap afterwards; tail_->next on a null tail_ is a
\* null dereference.
LList_append(l, h, item) ==
    IF l.tail_ = Null
    THEN [list |-> l, heap |-> h, res |-> NullDeref]
    ELSE LET n == NewNode(h)
             h1 == Link(h, n, item, Null)
             h2 == [h1 EXCEPT ![l.tail_].next = n]
         IN  [list |-> [l EXCEPT !.tail_ = h2[l.tail_].next, !.size_ = l.size_ + 1],
              heap |-> h2,
              res |-> Void]

\* Mutant: tail_ is not moved back when the last node is removed.
LList_remove_staleTail(l, h) ==
    IF l.curr_ = Null
    THEN [list |-> l, heap |-> h, res |-> NullDeref]
    ELSE IF h[l.curr_].next = Null
    THEN [list |-> l, heap |-> h, res |-> OutOfRange]
    ELSE LET temp == h[l.curr_].next
             item == h[temp].element
             h1 == [h EXCEPT ![l.curr_].next = h[temp].next]
         IN  [list |-> [l EXCEPT !.size_ = l.size_ - 1],
              heap |-> Delete(h1, temp),
              res |-> Ok(item)]

\* remove(): the list and heap afterwards and the value returned or the
\* exception; curr_->next on a null curr_ is a null dereference.
LList_remove(l, h) ==
    IF l.curr_ = Null
    THEN [list |-> l, heap |-> h, res |-> NullDeref]
    ELSE IF h[l.curr_].next = Null
    THEN [list |-> l, heap |-> h, res |-> OutOfRange]
    ELSE LET temp == h[l.curr_].next
             item == h[temp].element
             tail == IF l.tail_ = temp THEN l.curr_ ELSE l.tail_
             h1 == [h EXCEPT ![l.curr_].next = h[temp].next]
         IN  [list |-> [l EXCEPT !.tail_ = tail, !.size_ = l.size_ - 1],
              heap |-> Delete(h1, temp),
              res |-> Ok(item)]

LList_moveToStart(l) == [l EXCEPT !.curr_ = l.head_]

LList_moveToEnd(l) == [l EXCEPT !.curr_ = l.tail_]

\* temp = head_; while (temp->next != curr_) temp = temp->next;
RECURSIVE PrevWalk(_, _, _)
PrevWalk(h, temp, curr) ==
    IF h[temp].next # curr THEN PrevWalk(h, h[temp].next, curr) ELSE temp

LList_prev(l, h) ==
    IF l.curr_ = l.head_ THEN l ELSE [l EXCEPT !.curr_ = PrevWalk(h, l.head_, l.curr_)]

\* Mutant: the cursor advances from the last node too, to its null next.
LList_next_pastTail(l, h) == [l EXCEPT !.curr_ = h[l.curr_].next]

LList_next(l, h) ==
    IF l.curr_ # l.tail_ THEN [l EXCEPT !.curr_ = h[l.curr_].next] ELSE l

LList_length(l) == l.size_

\* while (temp != curr_) { temp = temp->next; ++index; }
RECURSIVE CurrPosWalk(_, _, _, _)
CurrPosWalk(h, temp, curr, index) ==
    IF temp # curr THEN CurrPosWalk(h, h[temp].next, curr, index + 1) ELSE index

LList_currPos(l, h) == CurrPosWalk(h, l.head_, l.curr_, 0)

\* for (i = 0; i < pos; ++i) curr_ = curr_->next;
RECURSIVE Advance(_, _, _, _)
Advance(h, curr, i, pos) ==
    IF i < pos THEN Advance(h, h[curr].next, i + 1, pos) ELSE curr

\* Mutant: pos == size_ is rejected.
LList_moveToPos_rejectsEnd(l, h, pos) ==
    IF pos >= l.size_
    THEN [list |-> l, res |-> OutOfRange]
    ELSE [list |-> [l EXCEPT !.curr_ = Advance(h, l.head_, 0, pos)], res |-> Void]

LList_moveToPos(l, h, pos) ==
    IF pos > l.size_
    THEN [list |-> l, res |-> OutOfRange]
    ELSE [list |-> [l EXCEPT !.curr_ = Advance(h, l.head_, 0, pos)], res |-> Void]

\* getValue(): curr_->next on a null curr_ is a null dereference.
LList_getValue(l, h) ==
    IF l.curr_ = Null
    THEN NullDeref
    ELSE IF h[l.curr_].next = Null THEN OutOfRange ELSE Ok(h[h[l.curr_].next].element)

\* while (otherNode != nullptr) { append(otherNode->element); otherNode = otherNode->next; }
RECURSIVE CopyNodes(_, _, _)
CopyNodes(l, h, otherNode) ==
    IF otherNode # Null
    THEN LET r == LList_append(l, h, h[otherNode].element)
         IN  CopyNodes(r.list, r.heap, r.heap[otherNode].next)
    ELSE [list |-> l, heap |-> h]

\* Mutant: the copy takes the pointers of other instead of copying its nodes.
LList_copyFrom_sharesNodes(other, h) == [list |-> other, heap |-> h, res |-> Void]

\* Mutant: the cursor of the copy is left at the start.
LList_copyFrom_cursorAtStart(other, h) ==
    LET i == LList_init(h)
        c == CopyNodes(i.list, i.heap, i.heap[other.head_].next)
    IN  [list |-> c.list, heap |-> c.heap, res |-> Void]

\* copyFrom(other): this list and the heap afterwards, and whether
\* moveToPos threw; other.head_->next on a null head_ is a null dereference.
LList_copyFrom(other, h) ==
    LET i == LList_init(h)
    IN  IF other.head_ = Null
        THEN [list |-> i.list, heap |-> i.heap, res |-> NullDeref]
        ELSE LET c == CopyNodes(i.list, i.heap, i.heap[other.head_].next)
                 otherPos == LList_currPos(other, c.heap)
                 m == LList_moveToPos(c.list, c.heap, otherPos)
             IN  [list |-> m.list, heap |-> c.heap, res |-> m.res]

\* LList(const LList& other)
LList_copy(other, h) == LList_copyFrom(other, h)

\* operator=(const LList& other); same: this == &other.
LList_copyAssign(this, other, h, same) ==
    IF same
    THEN [list |-> this, heap |-> h, res |-> Void]
    ELSE LList_copyFrom(other, LList_removeAll(this, h).heap)

\* LList(LList&& other): the new list, and other afterwards.
LList_moveFrom(other) ==
    [list |-> other,
     other |-> [head_ |-> Null, tail_ |-> Null, curr_ |-> Null, size_ |-> 0]]

\* Mutant: the nodes this list owned are not deleted before the takeover.
LList_moveAssign_keepsNodes(this, other, h, same) ==
    IF same
    THEN [list |-> this, other |-> other, heap |-> h]
    ELSE [list |-> other,
          other |-> [head_ |-> Null, tail_ |-> Null, curr_ |-> Null, size_ |-> 0],
          heap |-> h]

\* operator=(LList&& other): this, other and the heap afterwards.
LList_moveAssign(this, other, h, same) ==
    IF same
    THEN [list |-> this, other |-> other, heap |-> h]
    ELSE [list |-> other,
          other |-> [head_ |-> Null, tail_ |-> Null, curr_ |-> Null, size_ |-> 0],
          heap |-> LList_removeAll(this, h).heap]

\* List<E>::isEmpty
AList_isEmpty(l) == AList_length(l) = 0
LList_isEmpty(l) == LList_length(l) = 0

(***************************************************************************)
(* Vector<int>.  The members are read as the one buffer the class owns     *)
(* (declared elements_, used as items_), capacity_ and size_.              *)
(***************************************************************************)
Vector_DEFAULT_CAPACITY == 16
Vector_GROWTH_FACTOR == 2

\* Arguments the constructors are called with.
VectorInitCaps == {0, 1, 2}
VectorInitCounts == {1, 2}

\* explicit Vector(size_type initialCapacity = 0)
Vector_new(initialCapacity) ==
    [items_ |-> MakeArray(initialCapacity), capacity_ |-> initialCapacity, size_ |-> 0]

\* Vector(size_type count, const T& value)
Vector_fill(count, value) ==
    [items_ |-> [i \in 1..count |-> value], capacity_ |-> count, size_ |-> count]

Vector_empty(v) == v.size_ = 0

Vector_size(v) == v.size_

Vector_capacity(v) == v.capacity_

\* operator[](index): no bounds check; outside the buffer (a null buffer
\* included) the read is undefined.
Vector_index(v, index) ==
    IF index + 1 \in DOMAIN v.items_ THEN Ok(v.items_[index + 1]) ELSE NullDeref

\* Mutant: the index is tested against capacity_ instead of size_.
Vector_at_checksCapacity(v, index) ==
    IF index >= v.capacity_ THEN OutOfRange ELSE Ok(v.items_[index + 1])

Vector_at(v, index) ==
    IF index >= v.size_ THEN OutOfRange ELSE Ok(v.items_[index + 1])

Vector_front(v) ==
    IF Vector_empty(v) THEN OutOfRange ELSE Ok(v.items_[1])

Vector_back(v) ==
    IF Vector_empty(v) THEN OutOfRange ELSE Ok(v.items_[v.size_])

\* Mutant: the new buffer is installed without moving the elements into it.
Vector_reserve_dropsElements(v, newCapacity) ==
    IF newCapacity <= v.capacity_
    THEN v
    ELSE [v EXCEPT !.items_ = MakeArray(newCapacity), !.capacity_ = newCapacity]

Vector_reserve(v, newCapacity) ==
    IF newCapacity <= v.capacity_
    THEN v
    ELSE [v EXCEPT !.items_ = MoveElements(MakeArray(newCapacity), v.items_, 0, v.size_),
                   !.capacity_ = newCapacity]

\* Mutant: the doubled capacity is used without the overflow check.
Vector_ensureCapacity_unchecked(v) ==
    IF v.size_ >= v.capacity_
    THEN Vector_reserve(v, IF v.capacity_ = 0
                           THEN Vector_DEFAULT_CAPACITY
                           ELSE (v.capacity_ * Vector_GROWTH_FACTOR) % SizeModulus)
    ELSE v

Vector_ensureCapacity(v) ==
    IF v.size_ >= v.capacity_
    THEN LET grown == IF v.capacity_ = 0
                      THEN Vector_DEFAULT_CAPACITY
                      ELSE (v.capacity_ * Vector_GROWTH_FACTOR) % SizeModulus
             newCapacity == IF grown <= v.capacity_ /\ v.capacity_ > 0
                            THEN (v.capacity_ + 1) % SizeModulus
                            ELSE grown
         IN  Vector_reserve(v, newCapacity)
    ELSE v

\* Mutant: clear() also releases the buffer.
Vector_clear_releasesBuffer(v) ==
    [v EXCEPT !.items_ = MakeArray(0), !.capacity_ = 0, !.size_ = 0]

Vector_clear(v) == [v EXCEPT !.size_ = 0]

\* push_back(item): the vector afterwards; items_[size_++] = item through a
\* null items_ is a null dereference.
Vector_push_back(v, item) ==
    LET g == Vector_ensureCapacity(v)
    IN  IF g.size_ + 1 \in DOMAIN g.items_
        THEN [vec |-> [g EXCEPT !.items_ = [g.items_ EXCEPT ![g.size_ + 1] = item],
                                !.size_ = g.size_ + 1],
              res |-> Void]
        ELSE [vec |-> g, res |-> NullDeref]

\* for (i = 0; i < k; ++i) v.push_back(x);  the vector afterwards, or as the
\* call that dereferenced null left it.
RECURSIVE Vector_pushes(_, _, _)
Vector_pushes(v, k, x) ==
    IF k = 0
    THEN v
    ELSE LET r == Vector_push_back(v, x)
         IN  IF r.res = Void THEN Vector_pushes(r.vec, k - 1, x) ELSE r.vec

\* Mutant: the buffer is released before the emptiness test.
Vector_pop_back_releasesFirst(v) ==
    IF Vector_empty(v)
    THEN [vec |-> [v EXCEPT !.items_ = MakeArray(0), !.capacity_ = 0], res |-> OutOfRange]
    ELSE [vec |-> [v EXCEPT !.size_ = v.size_ - 1], res |-> Void]

\* Mutant: size_ is decremented without the test for the empty vector.
Vector_pop_back_unchecked(v) ==
    [vec |-> [v EXCEPT !.size_ = (v.size_ - 1) % SizeModulus], res |-> Void]

\* pop_back(): the vector afterwards and whether the call threw.
Vector_pop_back(v) ==
    IF Vector_empty(v)
    THEN [vec |-> v, res |-> OutOfRange]
    ELSE [vec |-> [v EXCEPT !.size_ = v.size_ - 1], res |-> Void]

\* v[index] = item through operator[]: the vector afterwards; outside the
\* buffer the write is undefined.
Vector_assign(v, index, item) ==
    IF index + 1 \in DOMAIN v.items_
    THEN [vec |-> [v EXCEPT !.items_ = [v.items_ EXCEPT ![index + 1] = item]], res |-> Void]
    ELSE [vec |-> v, res |-> NullDeref]

\* Mutant: the copy allocates only as many slots as other holds elements.
Vector_copy_tightCapacity(other) ==
    [items_ |-> IF other.size_ > 0
                THEN CopyN(MakeArray(other.size_), other.items_, 0, other.size_)
                ELSE MakeArray(0),
     capacity_ |-> other.size_, size_ |-> other.size_]

\* Vector(const Vector& other): no buffer is allocated for an empty other.
Vector_copy(other) ==
    [items_ |-> IF other.size_ > 0
                THEN CopyN(MakeArray(other.capacity_), other.items_, 0, other.size_)
                ELSE MakeArray(0),
     capacity_ |-> other.capacity_, size_ |-> other.size_]

\* Mutant: capacity_ is not exchanged.
Vector_swap_keepsCapacity(this, other) ==
    [vec |-> [this EXCEPT !.size_ = other.size_, !.items_ = other.items_],
     other |-> [other EXCEPT !.size_ = this.size_, !.items_ = this.items_]]

\* swap(other): this and other afterwards.
Vector_swap(this, other) ==
    [vec |-> [this EXCEPT !.size_ = other.size_, !.capacity_ = other.capacity_,
                          !.items_ = other.items_],
     other |-> [other EXCEPT !.size_ = this.size_, !.capacity_ = this.capacity_,
                             !.items_ = this.items_]]

\* operator=(const Vector& other): Vector temp(other); swap(temp);
Vector_copyAssign(this, other, same) ==
    IF same THEN this ELSE Vector_swap(this, Vector_copy(other)).vec

\* Mutant: the buffer is taken but other keeps its capacity_.
Vector_moveFrom_keepsCapacity(other) ==
    [vec |-> other,
     other |-> [other EXCEPT !.items_ = MakeArray(0), !.size_ = 0]]

\* Vector(Vector&& other): the new vector, and other afterwards.
Vector_moveFrom(other) ==
    [vec |-> other,
     other |-> [other EXCEPT !.items_ = MakeArray(0), !.capacity_ = 0, !.size_ = 0]]

\* operator=(Vector&& other): this and other afterwards.
Vector_moveAssign(this, other, same) ==
    IF same
    THEN [vec |-> this, other |-> other]
    ELSE [vec |-> [this EXCEPT !.items_ = other.items_, !.capacity_ = other.capacity_,
                               !.size_ = other.size_],
          other |-> [other EXCEPT !.items_ = MakeArray(0), !.capacity_ = 0, !.size_ = 0]]

\* Mutant: the smaller buffer is installed without moving the elements into it.
Vector_shrink_to_fit_dropsElements(v) ==
    IF v.capacity_ > v.size_
    THEN [v EXCEPT !.items_ = MakeArray(v.size_), !.capacity_ = v.size_]
    ELSE v

\* shrink_to_fit()
Vector_shrink_to_fit(v) ==
    IF v.capacity_ > v.size_
    THEN LET newCapacity == IF v.size_ > 0 THEN v.size_ ELSE 0
         IN  IF newCapacity = 0
             THEN [v EXCEPT !.items_ = MakeArray(0), !.capacity_ = 0]
             ELSE [v EXCEPT !.items_ = MoveElements(MakeArray(newCapacity), v.items_,
                                                    0, v.size_),
                            !.capacity_ = newCapacity]
    ELSE v

\* for (i = size_; i < count; ++i) items_[i] = T();
RECURSIVE FillDefault(_, _, _)
FillDefault(arr, i, count) ==
    IF i < count
    THEN FillDefault([arr EXCEPT ![i + 1] = DefaultE], i + 1, count)
    ELSE arr

\* resize(count): the vector afterwards; items_[i] = T() through a null
\* items_ is a null dereference.
Vector_resize(v, count) ==
    LET g == IF count > v.capacity_ THEN Vector_reserve(v, count) ELSE v
    IN  IF count > g.size_ /\ count > Len(g.items_)
        THEN [vec |-> g, res |-> NullDeref]
        ELSE [vec |-> [g EXCEPT !.items_ = IF count > g.size_
                                           THEN FillDefault(g.items_, g.size_, count)
                                           ELSE g.items_,
                                !.size_ = count],
              res |-> Void]

(***************************************************************************)
(* The program: construction, then one call per step.                      *)
(***************************************************************************)
(***************************************************************************)
(* LinkedList (linked_list.h, linked_list.cpp): head and tail pointers to  *)
(* nodes of an int and a next pointer, with no header node.                *)
(***************************************************************************)
\* new Node(val): data(val), next(nullptr), at address n.
Node(h, n, val) ==
    [m \in DOMAIN h \cup {n} |-> IF m = n THEN [data |-> val, next |-> Null] ELSE h[m]]

\* LinkedList() : head(nullptr), tail(nullptr)
LinkedList_new == [head |-> Null, tail |-> Null]

LinkedList_empty(l) == l.head = Null

LinkedList_push_front(l, h, value) ==
    LET new_node == NewNode(h)
    IN  [list |-> [head |-> new_node,
                   tail |-> IF l.tail = Null THEN new_node ELSE l.tail],
         heap |-> [Node(h, new_node, value) EXCEPT ![new_node].next = l.head]]

LinkedList_push_back(l, h, value) ==
    LET new_node == NewNode(h)
    IN  IF l.tail # Null
        THEN [list |-> [l EXCEPT !.tail = new_node],
              heap |-> [Node(h, new_node, value) EXCEPT ![l.tail].next = new_node]]
        ELSE [list |-> [head |-> new_node, tail |-> new_node],
              heap |-> Node(h, new_node, value)]

\* Mutant: tail is left pointing at the deleted node when the list empties.
LinkedList_pop_front_keepsTail(l, h) ==
    IF l.head = Null
    THEN [list |-> l, heap |-> h]
    ELSE [list |-> [l EXCEPT !.head = h[l.head].next], heap |-> Delete(h, l.head)]

LinkedList_pop_front(l, h) ==
    IF l.head = Null
    THEN [list |-> l, heap |-> h]
    ELSE LET next == h[l.head].next
         IN  [list |-> [head |-> next, tail |-> IF next = Null THEN Null ELSE l.tail],
              heap |-> Delete(h, l.head)]

\* curr = head; while (curr->next != tail) curr = curr->next;   is PrevWalk.
LinkedList_pop_back(l, h) ==
    IF l.head = Null
    THEN [list |-> l, heap |-> h]
    ELSE IF l.head = l.tail
         THEN [list |-> [head |-> Null, tail |-> Null], heap |-> Delete(h, l.head)]
         ELSE LET curr == PrevWalk(h, l.head, l.tail)
              IN  [list |-> [l EXCEPT !.tail = curr],
                   heap |-> [Delete(h, l.tail) EXCEPT ![curr].next = Null]]

\* while (curr) { std::cout << curr->data << " "; curr = curr->next; }
\* std::cout << std::endl;   The text written, after out.
RECURSIVE PrintWalk(_, _, _)
PrintWalk(h, curr, out) ==
    IF curr # Null
    THEN PrintWalk(h, h[curr].next, out \o ToString(h[curr].data) \o " ")
    ELSE out \o "\n"

LinkedList_print(l, h) == PrintWalk(h, l.head, "")

\* The value of an object that was not constructed.
NoObject == <<>>
EmptyHeap == <<>>

\* No second object is constructed.
NoSecond ==
    /\ alist2 = NoObject
    /\ llist2 = NoObject
    /\ vec2 = NoObject
    /\ kept = NoObject
    /\ ops = 0
    /\ linked = NoObject

\* AList<int> a(c); LList<int> l;
InitLists ==
    \E c \in InitCaps :
        /\ alist = AList_new(c)
        /\ llist = LList_new(EmptyHeap).list
        /\ heap = LList_new(EmptyHeap).heap
        /\ vec = NoObject
        /\ live = {"alist", "llist"}
        /\ NoSecond

\* Vector<int> v(c);   or   Vector<int> v(count, value);
InitVector ==
    /\ \/ \E c \in VectorInitCaps : vec = Vector_new(c)
       \/ \E count \in VectorInitCounts, value \in Elems : vec = Vector_fill(count, value)
    /\ alist = NoObject
    /\ llist = NoObject
    /\ heap = EmptyHeap
    /\ live = {"vec"}
    /\ NoSecond

Init == InitLists \/ InitVector

ListsLive == {"alist", "llist"} \subseteq live
VectorLive == "vec" \in live

\* A call of the List interface: its name and its argument.
ListCalls ==
    [op : {"clear", "remove", "moveToStart", "moveToEnd", "prev", "next"}]
        \cup [op : {"insert", "append"}, item : Elems]
        \cup [op : {"moveToPos"}, pos : Positions]

\* The AList after the call c.
AList_call(l, c) ==
    CASE c.op = "clear" -> AList_clear(l)
      [] c.op = "insert" -> AList_insert(l, c.item)
      [] c.op = "append" -> AList_append(l, c.item)
      [] c.op = "remove" -> AList_remove(l).list
      [] c.op = "moveToStart" -> AList_moveToStart(l)
      [] c.op = "moveToEnd" -> AList_moveToEnd(l)
      [] c.op = "prev" -> AList_prev(l)
      [] c.op = "next" -> AList_next(l)
      [] c.op = "moveToPos" -> AList_moveToPos(l, c.pos).list
      [] c.op = "reserve" -> AList_reserve(l, c.n)
      [] c.op = "shrink_to_fit" -> AList_shrink_to_fit(l)

\* The LList and the heap after the call c, and how the call ended.
LList_call(l, h, c) ==
    CASE c.op = "clear" ->
             [list |-> LList_clear(l, h).list, heap |-> LList_clear(l, h).heap,
              res |-> Void]
      [] c.op = "insert" -> LList_insert(l, h, c.item)
      [] c.op = "append" -> LList_append(l, h, c.item)
      [] c.op = "remove" -> LList_remove(l, h)
      [] c.op = "moveToStart" -> [list |-> LList_moveToStart(l), heap |-> h, res |-> Void]
      [] c.op = "moveToEnd" -> [list |-> LList_moveToEnd(l), heap |-> h, res |-> Void]
      [] c.op = "prev" -> [list |-> LList_prev(l, h), heap |-> h, res |-> Void]
      [] c.op = "next" -> [list |-> LList_next(l, h), heap |-> h, res |-> Void]
      [] c.op = "moveToPos" ->
             [list |-> LList_moveToPos(l, h, c.pos).list, heap |-> h,
              res |-> LList_moveToPos(l, h, c.pos).res]

\* One List call, made on the AList and on the LList.
ListCall(c) ==
    /\ ListsLive
    /\ c.op \in {"insert", "append"} =>
           AList_length(alist) < MaxLen /\ LList_length(llist) < MaxLen
    /\ alist' = AList_call(alist, c)
    /\ llist' = LList_call(llist, heap, c).list
    /\ heap' = LList_call(llist, heap, c).heap
    /\ UNCHANGED <<vec, live, second>>

\* Arguments of reserve and resize: below, at and above what the vector holds.
ReserveArgs == 0..(MaxLen + 1)
ResizeArgs == 0..MaxLen

\* A call that changes a vector: its name and its arguments.  "assign" is
\* v[index] = item;
VectorCalls ==
    [op : {"pop_back", "clear", "shrink_to_fit"}]
        \cup [op : {"push_back"}, item : Elems]
        \cup [op : {"resize"}, count : ResizeArgs]
        \cup [op : {"reserve"}, n : ReserveArgs]
        \cup [op : {"assign"}, index : 0..(MaxLen - 1), item : Elems]

\* The vector after the call c, and how the call ended.
Vector_call(v, c) ==
    CASE c.op = "pop_back" -> Vector_pop_back(v)
      [] c.op = "clear" -> [vec |-> Vector_clear(v), res |-> Void]
      [] c.op = "shrink_to_fit" -> [vec |-> Vector_shrink_to_fit(v), res |-> Void]
      [] c.op = "push_back" -> Vector_push_back(v, c.item)
      [] c.op = "resize" -> Vector_resize(v, c.count)
      [] c.op = "reserve" -> [vec |-> Vector_reserve(v, c.n), res |-> Void]
      [] c.op = "assign" -> Vector_assign(v, c.index, c.item)

\* One call on the vector, which holds at most MaxLen elements.
VectorCall(c) ==
    /\ VectorLive
    /\ c.op = "push_back" => Vector_size(vec) < MaxLen
    /\ c.op = "assign" => c.index < Vector_size(vec)
    /\ Vector_call(vec, c).res # NullDeref
    /\ vec' = Vector_call(vec, c).vec
    /\ UNCHANGED <<alist, llist, heap, live, second>>

\* The program that constructs the two lists or a vector and makes the calls
\* the lists and the vector have in common.
Next ==
    \/ \E c \in ListCalls : ListCall(c)
    \/ \E c \in VectorCalls : c.op \in {"push_back", "pop_back", "clear"} /\ VectorCall(c)

Spec == Init /\ [][Next]_vars

\* Vectors as the constructors give them.
FreshVectors ==
    {Vector_new(c) : c \in VectorInitCaps}
        \cup {Vector_fill(count, value) : count \in VectorInitCounts, value \in Elems}

\* A second vector is made of v or takes part in a call on it, and the
\* program goes on with one of the two:
\*   copy        Vector<int> o(v);             goes on with o
\*   copyAssign  Vector<int> o(...); o = v;    goes on with o
\*   move        Vector<int> o(std::move(v));  goes on with o or v
\*   moveAssign  Vector<int> o(...); o = std::move(v);   with o or v
\*   swap        Vector<int> o(...); v.swap(o);          with v or o
VectorWith(k) ==
    /\ VectorLive
    /\ \E o \in FreshVectors :
           vec' \in CASE k = "copy" -> {Vector_copy(vec)}
                     [] k = "copyAssign" -> {Vector_copyAssign(o, vec, FALSE)}
                     [] k = "move" -> {Vector_moveFrom(vec).vec, Vector_moveFrom(vec).other}
                     [] k = "moveAssign" ->
                            {Vector_moveAssign(o, vec, FALSE).vec,
                             Vector_moveAssign(o, vec, FALSE).other}
                     [] k = "swap" -> {Vector_swap(vec, o).vec, Vector_swap(vec, o).other}
    /\ UNCHANGED <<alist, llist, heap, live, second>>

\* The program that constructs a vector and drives it with Vector calls.
VectorNext ==
    \/ \E c \in VectorCalls : c.op # "assign" /\ VectorCall(c)
    \/ \E k \in {"copy", "copyAssign", "move", "moveAssign", "swap"} : VectorWith(k)

SpecVector == InitVector /\ [][VectorNext]_vars

\* The program that constructs the two lists and drives them with List calls.
ListNext == \E c \in ListCalls : ListCall(c)

SpecLists == InitLists /\ [][ListNext]_vars

(***************************************************************************)
(* The program that clears its lists, constructs a second pair of lists    *)
(* beside them and from then on makes every call on all four.              *)
(***************************************************************************)
SecondLists == {"alist2", "llist2"} \subseteq live

\* The calls before the second lists exist.
FirstCalls == ~SecondLists /\ ListNext

\* list.clear();  AList<int> fresh;  LList<int> fresh;
ClearBesideFresh ==
    /\ ListsLive /\ ~SecondLists
    /\ alist' = AList_clear(alist)
    /\ llist' = LList_clear(llist, heap).list
    /\ alist2' = AList_new(AList_DEFAULT_CAPACITY)
    /\ llist2' = LList_new(LList_clear(llist, heap).heap).list
    /\ heap' = LList_new(LList_clear(llist, heap).heap).heap
    /\ live' = live \cup {"alist2", "llist2"}
    /\ UNCHANGED <<vec, vec2, kept, ops, linked>>

\* The same call on the cleared lists and on the fresh ones.
BothCall(c) ==
    /\ SecondLists
    /\ c.op \in {"insert", "append"} =>
           /\ AList_length(alist) < MaxLen /\ LList_length(llist) < MaxLen
           /\ AList_length(alist2) < MaxLen /\ LList_length(llist2) < MaxLen
    /\ alist' = AList_call(alist, c)
    /\ alist2' = AList_call(alist2, c)
    /\ llist' = LList_call(llist, heap, c).list
    /\ LET h1 == LList_call(llist, heap, c).heap
       IN  /\ llist2' = LList_call(llist2, h1, c).list
           /\ heap' = LList_call(llist2, h1, c).heap
    /\ UNCHANGED <<vec, live, vec2, kept, ops, linked>>

ClearNext ==
    \/ FirstCalls
    \/ ClearBesideFresh
    \/ \E c \in ListCalls : BothCall(c)

SpecClear == InitLists /\ [][ClearNext]_vars

(***************************************************************************)
(* What a client observes of the lists and the vector.                     *)
(***************************************************************************)
\* getValue(), next(), getValue(), ... until getValue() throws.
RECURSIVE AList_traverse(_, _)
AList_traverse(l, seen) ==
    IF AList_getValue(l).status = "ok"
    THEN AList_traverse(AList_next(l), Append(seen, AList_getValue(l).value))
    ELSE seen

RECURSIVE LList_traverse(_, _, _)
LList_traverse(l, h, seen) ==
    IF LList_getValue(l, h).status = "ok"
    THEN LList_traverse(LList_next(l, h), h, Append(seen, LList_getValue(l, h).value))
    ELSE seen

\* The elements from the start: moveToStart() and the traversal.
AList_elements(l) == AList_traverse(AList_moveToStart(l), <<>>)
LList_elements(l, h) == LList_traverse(LList_moveToStart(l), h, <<>>)

\* The elements of the vector: at(0) .. at(size() - 1).
Vector_elements(v) == [i \in 1..Vector_size(v) |-> Vector_at(v, i - 1).value]

\* What a client observes of each container.
AList_observed(l) ==
    [elements |-> AList_elements(l), length |-> AList_length(l),
     capacity |-> AList_capacity(l), currPos |-> AList_currPos(l)]
LList_observed(l, h) ==
    [elements |-> LList_elements(l, h), length |-> LList_length(l),
     currPos |-> LList_currPos(l, h)]
Vector_observed(v) ==
    [elements |-> Vector_elements(v), size |-> Vector_size(v),
     capacity |-> Vector_capacity(v)]

\* Lists an assignment target holds beforehand: LList<int> list2; list2.append(9);
PreSeqs == {<<>>, <<MaxElem>>, <<1, MaxElem>>}

RECURSIVE AList_of(_, _)
AList_of(l, s) == IF s = <<>> THEN l ELSE AList_of(AList_append(l, Head(s)), Tail(s))

RECURSIVE LList_of(_, _, _)
LList_of(l, h, s) ==
    IF s = <<>>
    THEN [list |-> l, heap |-> h]
    ELSE LET r == LList_append(l, h, Head(s)) IN LList_of(r.list, r.heap, Tail(s))

\* The targets: constructed empty, then the elements of s appended.
AList_target(s) == AList_of(AList_new(AList_DEFAULT_CAPACITY), s)
LList_target(h, s) == LList_of(LList_new(h).list, LList_new(h).heap, s)

(***************************************************************************)
(* The program that builds containers, copies them into second ones and    *)
(* then makes calls on the copy only, or on the original only.  kept is    *)
(* which of the two gets the calls and what the other showed at the copy.  *)
(***************************************************************************)
SecondVector == "vec2" \in live
Copied == SecondLists \/ SecondVector

\* The calls before the copy, on containers of at most MaxCopyLen elements.
CallsBeforeCopy ==
    /\ ~Copied
    /\ Next
    /\ ListsLive => AList_length(alist') <= MaxCopyLen
    /\ VectorLive => Vector_size(vec') <= MaxCopyLen

Sides == {"original", "copy"}

\* The lists are copied, by construction (k = "construct") or by assignment
\* to lists that hold s:
\*   LList<int> list2(list1);
\*   LList<int> list2; list2.append(9); list2 = list1;
\* and the same for the AList.
CopyLists(k, s, called) ==
    /\ ListsLive /\ ~Copied
    /\ alist2' = IF k = "construct"
                 THEN AList_copy(alist)
                 ELSE AList_copyAssign(AList_target(s), alist, FALSE)
    /\ LET t == LList_target(heap, s)
           r == IF k = "construct"
                THEN LList_copy(llist, heap)
                ELSE LList_copyAssign(t.list, llist, t.heap, FALSE)
       IN  llist2' = r.list /\ heap' = r.heap
    /\ live' = live \cup {"alist2", "llist2"}
    /\ kept' = [called |-> called,
                alist |-> AList_observed(IF called = "copy" THEN alist ELSE alist2'),
                llist |-> LList_observed(IF called = "copy" THEN llist ELSE llist2', heap')]
    /\ UNCHANGED <<alist, llist, vec, vec2, ops, linked>>

\* The vector is copied, by construction or by assignment to target:
\*   Vector<int> copy(original);
\*   Vector<int> copy; copy = original;
CopyVector(k, target, called) ==
    /\ VectorLive /\ ~Copied
    /\ vec2' = IF k = "construct"
               THEN Vector_copy(vec)
               ELSE Vector_copyAssign(target, vec, FALSE)
    /\ live' = live \cup {"vec2"}
    /\ kept' = [called |-> called,
                vec |-> Vector_observed(IF called = "copy" THEN vec ELSE vec2')]
    /\ UNCHANGED <<alist, llist, heap, vec, alist2, llist2, ops, linked>>

\* Of an original and its copy, the one the calls after the copy are made
\* on, and the other one.
Called(original, copy) == IF kept.called = "copy" THEN copy ELSE original
Other(original, copy) == IF kept.called = "copy" THEN original ELSE copy

\* A call on one of the two lists after the copy.
OnLists(c) ==
    /\ SecondLists
    /\ ops < MaxOps
    /\ c.op \in {"insert", "append"} =>
           /\ AList_length(Called(alist, alist2)) < MaxLen
           /\ LList_length(Called(llist, llist2)) < MaxLen
    /\ LET a == AList_call(Called(alist, alist2), c)
           l == LList_call(Called(llist, llist2), heap, c)
       IN  /\ alist' = IF kept.called = "copy" THEN alist ELSE a
           /\ alist2' = IF kept.called = "copy" THEN a ELSE alist2
           /\ llist' = IF kept.called = "copy" THEN llist ELSE l.list
           /\ llist2' = IF kept.called = "copy" THEN l.list ELSE llist2
           /\ heap' = l.heap
    /\ ops' = ops + 1
    /\ UNCHANGED <<vec, live, vec2, kept, linked>>

\* A call on one of the two vectors after the copy.
OnVector(c) ==
    /\ SecondVector
    /\ ops < MaxOps
    /\ c.op = "push_back" => Vector_size(Called(vec, vec2)) < MaxLen
    /\ c.op = "assign" => c.index < Vector_size(Called(vec, vec2))
    /\ Vector_call(Called(vec, vec2), c).res # NullDeref
    /\ LET v == Vector_call(Called(vec, vec2), c).vec
       IN  /\ vec' = IF kept.called = "copy" THEN vec ELSE v
           /\ vec2' = IF kept.called = "copy" THEN v ELSE vec2
    /\ ops' = ops + 1
    /\ UNCHANGED <<alist, llist, heap, live, alist2, llist2, kept, linked>>

CopyNext ==
    \/ CallsBeforeCopy
    \/ \E k \in {"construct", "assign"}, s \in PreSeqs, called \in Sides :
           CopyLists(k, s, called)
    \/ \E k \in {"construct", "assign"}, target \in FreshVectors, called \in Sides :
           CopyVector(k, target, called)
    \/ \E c \in ListCalls : OnLists(c)
    \/ \E c \in VectorCalls : OnVector(c)

\* AList<int> list;  LList<int> list;   or a vector.
InitCopy ==
    \/ /\ InitLists
       /\ alist = AList_new(AList_DEFAULT_CAPACITY)
    \/ InitVector

SpecCopy == InitCopy /\ [][CopyNext]_vars

(***************************************************************************)
(* The program that owns up to two LList objects, llist and llist2, on one *)
(* heap: it constructs, copies, moves and destroys them and makes List     *)
(* calls on llist, which takes over what llist2 holds by assignment.  live *)
(* names the objects that exist; ops counts the lifecycle operations.      *)
(***************************************************************************)
Slots == {"llist", "llist2"}

\* The object in slot o.
Slot(o) == IF o = "llist" THEN llist ELSE llist2

\* LList<int> llist;
InitNodes ==
    /\ llist = LList_new(EmptyHeap).list
    /\ heap = LList_new(EmptyHeap).heap
    /\ alist = NoObject
    /\ vec = NoObject
    /\ live = {"llist"}
    /\ NoSecond

\* The step that leaves l in slot o, m in the other slot, h as the heap and
\* lv as the objects that exist.
NodeStep(o, l, m, h, lv) ==
    /\ llist' = IF o = "llist" THEN l ELSE m
    /\ llist2' = IF o = "llist2" THEN l ELSE m
    /\ heap' = h
    /\ live' = lv
    /\ UNCHANGED <<alist, vec, alist2, vec2, kept, linked>>

\* The List calls with one element value: which nodes a call allocates, links
\* and frees does not depend on the element.
NodeCalls == {c \in ListCalls : c.op \in {"insert", "append"} => c.item = MaxElem}

\* o.clear(), o.insert(x), ... on a list of at most MaxCopyLen elements.
NodeCall(o, c) ==
    /\ o \in live
    /\ c.op \in {"insert", "append"} => LList_length(Slot(o)) < MaxCopyLen
    /\ LList_call(Slot(o), heap, c).res # NullDeref
    /\ \E from \in Slots \ {o} :
           NodeStep(o, LList_call(Slot(o), heap, c).list, Slot(from),
                    LList_call(Slot(o), heap, c).heap, live)
    /\ UNCHANGED ops

\* One operation k of the life of the list in slot o, with the list in slot
\* from as its argument; at most MaxOps of them are made.
\*   construct   LList<int> o;
\*   copy        LList<int> o(from);
\*   copyAssign  o = from;              and   o = o;
\*   move        LList<int> o(std::move(from));
\*   moveAssign  o = std::move(from);   and   o = std::move(o);
\*   destroy     ~LList(): o goes out of scope
ListLifecycle(k, o, from) ==
    /\ ops < MaxOps
    /\ ops' = ops + 1
    /\ \E other \in Slots \ {o} :
           \/ /\ k = "construct"
              /\ o \notin live /\ from = other
              /\ NodeStep(o, LList_new(heap).list, Slot(other), LList_new(heap).heap,
                          live \cup {o})
           \/ /\ k = "copy"
              /\ o \notin live /\ from \in live /\ o # from
              /\ LList_copy(Slot(from), heap).res # NullDeref
              /\ NodeStep(o, LList_copy(Slot(from), heap).list, Slot(from),
                          LList_copy(Slot(from), heap).heap, live \cup {o})
           \/ /\ k = "copyAssign"
              /\ o \in live /\ from \in live
              /\ LET r == LList_copyAssign(Slot(o), Slot(from), heap, o = from)
                 IN  r.res # NullDeref /\ NodeStep(o, r.list, Slot(other), r.heap, live)
           \/ /\ k = "move"
              /\ o \notin live /\ from \in live /\ o # from
              /\ NodeStep(o, LList_moveFrom(Slot(from)).list,
                          LList_moveFrom(Slot(from)).other, heap, live \cup {o})
           \/ /\ k = "moveAssign"
              /\ o \in live /\ from \in live
              /\ LET r == LList_moveAssign(Slot(o), Slot(from), heap, o = from)
                 IN  NodeStep(o, r.list, IF o = from THEN Slot(other) ELSE r.other,
                              r.heap, live)
           \/ /\ k = "destroy"
              /\ o \in live /\ from = other
              /\ NodeStep(o, NoObject, Slot(other),
                          LList_removeAll(Slot(o), heap).heap, live \ {o})

\* Construction, the List calls, copy construction and copy assignment.
ChainNext ==
    \/ \E c \in NodeCalls : NodeCall("llist", c)
    \/ \E k \in {"construct", "copy", "copyAssign"} :
           \E o, from \in Slots : ListLifecycle(k, o, from)

SpecChain == InitNodes /\ [][ChainNext]_vars

\* The same with move construction, move assignment and destruction.
NodesNext ==
    \/ ChainNext
    \/ \E k \in {"move", "moveAssign", "destroy"} :
           \E o, from \in Slots : ListLifecycle(k, o, from)

SpecNodes == InitNodes /\ [][NodesNext]_vars

(***************************************************************************)
(* The program that starts from a full AList or a full Vector of any       *)
(* capacity the size type can hold and makes at most MaxOps calls that add *)
(* or drop an element.                                                     *)
(***************************************************************************)
GrowthCaps == 0..(SizeModulus - 1)

\* AList<int> a(c); for (i = 0; i < c; ++i) a.append(1);
FullAList(c) ==
    [listArray_ |-> [i \in 1..c |-> 1], capacity_ |-> c, size_ |-> c, curr_ |-> 0]

\* AList<int> a(c), filled;   or   Vector<int> v(c, 1);
InitGrowth ==
    /\ \E c \in GrowthCaps :
           \/ alist = FullAList(c) /\ vec = NoObject /\ live = {"alist"}
           \/ vec = Vector_fill(c, 1) /\ alist = NoObject /\ live = {"vec"}
    /\ llist = NoObject
    /\ heap = EmptyHeap
    /\ NoSecond

\* listArray_[size_] lies inside the buffer once ensureCapacity() has run;
\* otherwise insert and append write past its end, which is undefined.
AList_hasRoom(l) ==
    AList_ensureCapacity(l).size_ < Len(AList_ensureCapacity(l).listArray_)

\* a.insert(x), a.append(x), a.remove(), a.reserve(n), a.shrink_to_fit()
GrowList(c) ==
    /\ "alist" \in live
    /\ c.op \in {"insert", "append", "remove", "reserve", "shrink_to_fit"}
    /\ ops < MaxOps
    /\ c.op \in {"insert", "append"} => AList_hasRoom(alist)
    /\ alist' = AList_call(alist, c)
    /\ ops' = ops + 1
    /\ UNCHANGED <<llist, heap, vec, live, alist2, llist2, vec2, kept, linked>>

\* v.push_back(x), v.pop_back()
GrowVector(c) ==
    /\ "vec" \in live
    /\ c.op \in {"push_back", "pop_back"}
    /\ ops < MaxOps
    /\ Vector_call(vec, c).res # NullDeref
    /\ vec' = Vector_call(vec, c).vec
    /\ ops' = ops + 1
    /\ UNCHANGED <<alist, llist, heap, live, alist2, llist2, vec2, kept, linked>>

GrowthNext ==
    \/ \E c \in ListCalls \cup [op : {"shrink_to_fit"}] \cup [op : {"reserve"}, n : ReserveArgs] :
           GrowList(c)
    \/ \E c \in VectorCalls : GrowVector(c)

SpecGrowth == InitGrowth /\ [][GrowthNext]_vars

(***************************************************************************)
(* The program that constructs a LinkedList and drives it with its calls   *)
(* in any order.  Beside the list it keeps the integer sequence the calls  *)
(* are meant to produce: push_front prepends, push_back appends, pop_front *)
(* drops the first and pop_back the last element, if there is one.         *)
(***************************************************************************)
\* LinkedList list;
InitLinked ==
    /\ linked = LinkedList_new
    /\ heap = EmptyHeap
    /\ kept = <<>>
    /\ live = {"linked"}
    /\ alist = NoObject /\ llist = NoObject /\ vec = NoObject
    /\ alist2 = NoObject /\ llist2 = NoObject /\ vec2 = NoObject
    /\ ops = 0

\* A call that changes the list; the values pushed are 0 and the elements.
LinkedCalls ==
    [op : {"push_front", "push_back"}, value : 0..MaxElem]
        \cup [op : {"pop_front", "pop_back"}]

\* The integer sequence s after the call c.
Sequence_call(s, c) ==
    CASE c.op = "push_front" -> <<c.value>> \o s
      [] c.op = "push_back" -> Append(s, c.value)
      [] c.op = "pop_front" -> IF s = <<>> THEN s ELSE Tail(s)
      [] c.op = "pop_back" -> IF s = <<>> THEN s ELSE SubSeq(s, 1, Len(s) - 1)

\* One call on the list, which holds at most MaxLen nodes.
LinkedCall(c) ==
    /\ "linked" \in live
    /\ c.op \in {"push_front", "push_back"} => Cardinality(DOMAIN heap) < MaxLen
    /\ LET r == CASE c.op = "push_front" -> LinkedList_push_front(linked, heap, c.value)
                   [] c.op = "push_back" -> LinkedList_push_back(linked, heap, c.value)
                   [] c.op = "pop_front" -> LinkedList_pop_front(linked, heap)
                   [] c.op = "pop_back" -> LinkedList_pop_back(linked, heap)
       IN  linked' = r.list /\ heap' = r.heap
    /\ kept' = Sequence_call(kept, c)
    /\ UNCHANGED <<alist, llist, vec, live, alist2, llist2, vec2, ops>>

LinkedNext == \E c \in LinkedCalls : LinkedCall(c)

SpecLinked == InitLinked /\ [][LinkedNext]_vars

(***************************************************************************)
(* Shorthands for the state of the program.                                *)
(***************************************************************************)
AElems == AList_elements(alist)
LElems == LList_elements(llist, heap)

ALen == AList_length(alist)
LLen == LList_length(llist)
APos == AList_currPos(alist)
LPos == LList_currPos(llist, heap)
AVal == AList_getValue(alist)
LVal == LList_getValue(llist, heap)
ACap == AList_capacity(alist)

VElems == Vector_elements(vec)
VSize == Vector_size(vec)
VCap == Vector_capacity(vec)

(***************************************************************************)
(* Reference operations on sequences (position p is index p + 1).          *)
(***************************************************************************)
InsertAt(s, p, x) == SubSeq(s, 1, p) \o <<x>> \o SubSeq(s, p + 1, Len(s))
RemoveAt(s, p) == SubSeq(s, 1, p) \o SubSeq(s, p + 2, Len(s))

(***************************************************************************)
(* Properties.  Each is stated of the call applied in every reachable      *)
(* state, for every argument.                                              *)
(***************************************************************************)
\* C1: for both AList and LList, in every state reached from the empty list
\* by clear, insert, append, remove, moveToStart, moveToEnd, prev, next and
\* moveToPos calls (failing calls included), 0 <= currPos() <= length().
C1_CursorInRange ==
    ListsLive =>
        /\ 0 <= APos /\ APos <= ALen
        /\ 0 <= LPos /\ LPos <= LLen

\* The cursor is at the end of a list of several elements, where next() and
\* moveToPos(length() + 1) would take it out of range.
C1_Witness ==
    /\ ListsLive
    /\ ALen > 1 /\ APos = ALen /\ LPos = LLen
    /\ AList_moveToPos(alist, ALen + 1).res = OutOfRange
    /\ LList_moveToPos(llist, heap, LLen + 1).res = OutOfRange

\* C2: AList and LList are observationally equivalent: the same calls on two
\* empty lists succeed on both or throw out_of_range on both, remove()
\* returns the same element, and after every step length(), currPos() and
\* getValue() (its value or its failure) agree.
C2_Equivalent ==
    ListsLive =>
        /\ ALen = LLen
        /\ APos = LPos
        /\ AVal = LVal
        /\ AList_remove(alist).res = LList_remove(llist, heap).res
        /\ \A pos \in Positions :
               AList_moveToPos(alist, pos).res = LList_moveToPos(llist, heap, pos).res

\* Inside a list of several elements remove() returns the same element on both.
C2_Witness ==
    /\ ListsLive
    /\ APos > 0 /\ APos + 1 < ALen
    /\ AVal.status = "ok" /\ AVal = LVal
    /\ AList_remove(alist).res = AVal
    /\ LList_remove(llist, heap).res = AVal

\* C3: insert(x) with the cursor at any position p: length() grows by one,
\* currPos() is still p, getValue() returns x, the elements before p are
\* unchanged and the elements from p on are each one position later.
C3_Insert ==
    ListsLive =>
        LET ae0 == AElems
            le0 == LElems
            p == APos
        IN  \A x \in Elems :
                LET a == AList_insert(alist, x)
                    r == LList_insert(llist, heap, x)
                    ae == AList_elements(a)
                    le == LList_elements(r.list, r.heap)
                IN  /\ AList_length(a) = ALen + 1
                    /\ LList_length(r.list) = LLen + 1
                    /\ AList_currPos(a) = p
                    /\ LList_currPos(r.list, r.heap) = LPos
                    /\ AList_getValue(a) = Ok(x)
                    /\ LList_getValue(r.list, r.heap) = Ok(x)
                    /\ ae = InsertAt(ae0, p, x)
                    /\ le = InsertAt(le0, p, x)
                    /\ Len(ae) = ALen + 1 /\ Len(le) = LLen + 1
                    /\ \A i \in 1..p : ae[i] = ae0[i] /\ le[i] = le0[i]
                    /\ \A i \in (p + 1)..ALen :
                           ae[i + 1] = ae0[i] /\ le[i + 1] = le0[i]

\* insert(x) strictly inside a list: x differs from the element it displaces,
\* which follows it afterwards.
C3_Witness ==
    /\ ListsLive
    /\ APos > 0 /\ APos < ALen
    /\ \E x \in Elems :
           /\ AVal # Ok(x)
           /\ AList_getValue(AList_insert(alist, x)) = Ok(x)
           /\ AList_getValue(AList_next(AList_insert(alist, x))) = AVal
           /\ LList_getValue(LList_insert(llist, heap, x).list,
                             LList_insert(llist, heap, x).heap) = Ok(x)

\* C4: append(x) with the cursor anywhere: length() grows by one, currPos()
\* is unchanged, x is the last element and every earlier element keeps its
\* position, so a traversal from the start yields the elements in append order.
C4_Append ==
    ListsLive =>
        LET ae0 == AElems
            le0 == LElems
        IN  \A x \in Elems :
                LET a == AList_append(alist, x)
                    r == LList_append(llist, heap, x)
                    ae == AList_elements(a)
                    le == LList_elements(r.list, r.heap)
                IN  /\ AList_length(a) = ALen + 1
                    /\ LList_length(r.list) = LLen + 1
                    /\ AList_currPos(a) = APos
                    /\ LList_currPos(r.list, r.heap) = LPos
                    /\ ae = Append(ae0, x)
                    /\ le = Append(le0, x)
                    /\ Len(ae) = ALen + 1 /\ Len(le) = LLen + 1

\* append(x) onto a list of several elements with the cursor before the end:
\* x lands behind the last element and the current element stays.
C4_Witness ==
    /\ ListsLive
    /\ ALen > 1 /\ APos + 1 < ALen
    /\ \E x \in Elems :
           /\ AElems[ALen] # x
           /\ AList_elements(AList_append(alist, x))[ALen + 1] = x
           /\ LList_elements(LList_append(llist, heap, x).list,
                             LList_append(llist, heap, x).heap)[LLen + 1] = x
           /\ AList_getValue(AList_append(alist, x)) = AVal

\* C5: remove() with currPos() = p < length(): returns the element at p,
\* length() shrinks by one, currPos() stays p, the element formerly at p+1
\* (if any) is the current element (if none the cursor is at the end with no
\* current element), and the other elements keep their order.
C5_Remove ==
    (ListsLive /\ APos < ALen) =>
        LET ae0 == AElems
            le0 == LElems
            p == APos
            a == AList_remove(alist)
            r == LList_remove(llist, heap)
            ae == AList_elements(a.list)
            le == LList_elements(r.list, r.heap)
        IN  /\ a.res = Ok(ae0[p + 1]) /\ r.res = Ok(le0[p + 1])
            /\ AList_length(a.list) = ALen - 1
            /\ LList_length(r.list) = LLen - 1
            /\ AList_currPos(a.list) = p
            /\ LList_currPos(r.list, r.heap) = LPos
            /\ ae = RemoveAt(ae0, p)
            /\ le = RemoveAt(le0, p)
            /\ Len(ae) = ALen - 1 /\ Len(le) = LLen - 1
            /\ IF p + 1 < ALen
               THEN /\ AList_getValue(a.list) = Ok(ae0[p + 2])
                    /\ LList_getValue(r.list, r.heap) = Ok(le0[p + 2])
               ELSE /\ AList_getValue(a.list) = OutOfRange
                    /\ LList_getValue(r.list, r.heap) = OutOfRange
                    /\ AList_currPos(a.list) = AList_length(a.list)
                    /\ LList_currPos(r.list, r.heap) = LList_length(r.list)

\* remove() inside a list: an element before the cursor, and a different
\* element behind the removed one, which becomes current.
C5_Witness ==
    /\ ListsLive
    /\ APos > 0 /\ APos + 1 < ALen
    /\ AElems[APos + 1] # AElems[APos + 2]
    /\ AList_remove(alist).res = Ok(AElems[APos + 1])
    /\ AList_getValue(AList_remove(alist).list) = Ok(AElems[APos + 2])
    /\ LList_getValue(LList_remove(llist, heap).list,
                      LList_remove(llist, heap).heap) = Ok(LElems[LPos + 2])

\* C6: remove() and getValue() throw out_of_range exactly when
\* currPos() == length() (the empty list included) and succeed in every
\* state with currPos() < length().
C6_NoCurrentElement ==
    ListsLive =>
        LET ar == AList_remove(alist).res.status
            lr == LList_remove(llist, heap).res.status
        IN  /\ (ar = "out_of_range") <=> (APos = ALen)
            /\ (ar = "ok") <=> (APos < ALen)
            /\ (AVal.status = "out_of_range") <=> (APos = ALen)
            /\ (AVal.status = "ok") <=> (APos < ALen)
            /\ (lr = "out_of_range") <=> (LPos = LLen)
            /\ (lr = "ok") <=> (LPos < LLen)
            /\ (LVal.status = "out_of_range") <=> (LPos = LLen)
            /\ (LVal.status = "ok") <=> (LPos < LLen)

\* remove() and getValue() throw with the cursor at the end of a non-empty list.
C6_Witness ==
    /\ ListsLive
    /\ ALen > 0 /\ APos = ALen /\ LPos = LLen
    /\ AList_remove(alist).res = OutOfRange /\ AVal = OutOfRange
    /\ LList_remove(llist, heap).res = OutOfRange /\ LVal = OutOfRange

\* C7: moveToPos(pos) succeeds exactly when pos <= length(); then
\* currPos() == pos and, when pos < length(), getValue() returns the element
\* at index pos; when pos > length() it throws out_of_range.
C7_MoveToPos ==
    ListsLive =>
        LET ae0 == AElems
            le0 == LElems
        IN  \A pos \in Positions :
                LET a == AList_moveToPos(alist, pos)
                    r == LList_moveToPos(llist, heap, pos)
                IN  /\ (a.res.status = "ok") <=> (pos <= ALen)
                    /\ (r.res.status = "ok") <=> (pos <= LLen)
                    /\ (a.res.status = "out_of_range") <=> (pos > ALen)
                    /\ (r.res.status = "out_of_range") <=> (pos > LLen)
                    /\ pos <= ALen => AList_currPos(a.list) = pos
                    /\ pos <= LLen => LList_currPos(r.list, heap) = pos
                    /\ pos < ALen => AList_getValue(a.list) = Ok(ae0[pos + 1])
                    /\ pos < LLen => LList_getValue(r.list, heap) = Ok(le0[pos + 1])

\* On a list of several elements with the cursor at the start,
\* moveToPos(length()) is accepted and moveToPos(length() + 1) throws.
C7_Witness ==
    /\ ListsLive
    /\ ALen > 1 /\ APos = 0 /\ LPos = 0
    /\ AList_moveToPos(alist, ALen).res = Void
    /\ LList_currPos(LList_moveToPos(llist, heap, LLen).list, heap) = LLen
    /\ AList_moveToPos(alist, ALen + 1).res = OutOfRange
    /\ LList_moveToPos(llist, heap, LLen + 1).res = OutOfRange

\* C8: a failing call leaves the container as it was: after remove(),
\* getValue() or moveToPos(pos) throws on an AList/LList, and after at(i),
\* front(), back() or pop_back() throws on a Vector, the elements, the
\* length/size, the capacity and the cursor equal their values before the
\* call.  (getValue, at, front and back assign nothing at all.)
C8_FailureChangesNothing ==
    /\ ListsLive =>
        LET ao == AList_observed(alist)
            lo == LList_observed(llist, heap)
            a == AList_remove(alist)
            r == LList_remove(llist, heap)
        IN  /\ a.res = OutOfRange => AList_observed(a.list) = ao
            /\ r.res = OutOfRange => LList_observed(r.list, r.heap) = lo
            /\ \A pos \in Positions :
                   LET am == AList_moveToPos(alist, pos)
                       lm == LList_moveToPos(llist, heap, pos)
                   IN  /\ am.res = OutOfRange => AList_observed(am.list) = ao
                       /\ lm.res = OutOfRange => LList_observed(lm.list, heap) = lo
    /\ VectorLive =>
        LET p == Vector_pop_back(vec)
        IN  p.res = OutOfRange => Vector_observed(p.vec) = Vector_observed(vec)

\* pop_back(), front(), back() and at(0) throw on an empty vector that still
\* owns a buffer holding an element pushed earlier.
C8_Witness ==
    /\ VectorLive
    /\ VSize = 0 /\ VCap > 0 /\ vec.items_[1] # DefaultE
    /\ Vector_pop_back(vec).res = OutOfRange
    /\ Vector_front(vec) = OutOfRange /\ Vector_back(vec) = OutOfRange
    /\ Vector_at(vec, 0) = OutOfRange

\* C9: prev() at currPos() == 0 and next() at currPos() == length() are
\* no-ops (cursor, length and elements stay, no error); in every other state
\* prev() lowers and next() raises currPos() by one, the elements unchanged.
C9_PrevNext ==
    ListsLive =>
        LET ae0 == AElems
            le0 == LElems
            ap == AList_prev(alist)
            lp == LList_prev(llist, heap)
            an == AList_next(alist)
            ln == LList_next(llist, heap)
        IN  /\ AList_currPos(ap) = (IF APos = 0 THEN 0 ELSE APos - 1)
            /\ LList_currPos(lp, heap) = (IF LPos = 0 THEN 0 ELSE LPos - 1)
            /\ AList_currPos(an) = (IF APos = ALen THEN ALen ELSE APos + 1)
            /\ LList_currPos(ln, heap) = (IF LPos = LLen THEN LLen ELSE LPos + 1)
            /\ APos = 0 => AList_currPos(AList_prev(ap)) = 0
            /\ LPos = 0 => LList_currPos(LList_prev(lp, heap), heap) = 0
            /\ APos = ALen => AList_currPos(AList_next(an)) = ALen
            /\ LPos = LLen => LList_currPos(LList_next(ln, heap), heap) = LLen
            /\ AList_length(ap) = ALen /\ AList_length(an) = ALen
            /\ LList_length(lp) = LLen /\ LList_length(ln) = LLen
            /\ AList_elements(ap) = ae0 /\ AList_elements(an) = ae0
            /\ LList_elements(lp, heap) = le0 /\ LList_elements(ln, heap) = le0

\* The cursor is inside a list: prev() and next() each move it by one; two
\* more prev() calls from position 1 leave it at 0.
C9_Witness ==
    /\ ListsLive
    /\ APos = 1 /\ LPos = 1 /\ ALen > 1
    /\ AList_currPos(AList_prev(alist)) = 0
    /\ AList_currPos(AList_prev(AList_prev(alist))) = 0
    /\ LList_currPos(LList_prev(LList_prev(llist, heap), heap), heap) = 0
    /\ AList_currPos(AList_next(alist)) = 2
    /\ LList_currPos(LList_next(llist, heap), heap) = 2

\* C10: moveToStart() sets currPos() to 0 and moveToEnd() sets it to
\* length() (after which getValue() throws), in every state including the
\* empty list, never failing and never changing length() or the elements.
C10_MoveToStartEnd ==
    ListsLive =>
        LET ae0 == AElems
            le0 == LElems
            as == AList_moveToStart(alist)
            ls == LList_moveToStart(llist)
            ae == AList_moveToEnd(alist)
            le == LList_moveToEnd(llist)
        IN  /\ AList_currPos(as) = 0 /\ LList_currPos(ls, heap) = 0
            /\ AList_currPos(ae) = ALen /\ LList_currPos(le, heap) = LLen
            /\ AList_getValue(ae) = OutOfRange
            /\ LList_getValue(le, heap) = OutOfRange
            /\ AList_length(as) = ALen /\ AList_length(ae) = ALen
            /\ LList_length(ls) = LLen /\ LList_length(le) = LLen
            /\ AList_elements(as) = ae0 /\ AList_elements(ae) = ae0
            /\ LList_elements(ls, heap) = le0 /\ LList_elements(le, heap) = le0

\* The cursor is inside a list of several elements: moveToEnd() takes it to
\* length(), where getValue() throws, and moveToStart() takes it to 0.
C10_Witness ==
    /\ ListsLive
    /\ ALen > 2 /\ APos = 1 /\ LPos = 1
    /\ AList_currPos(AList_moveToEnd(alist)) = ALen
    /\ LList_currPos(LList_moveToEnd(llist), heap) = LLen
    /\ LList_getValue(LList_moveToEnd(llist), heap) = OutOfRange
    /\ LList_currPos(LList_moveToStart(llist), heap) = 0

\* What the List interface shows of a list, and what each call that may
\* throw would answer.
AList_responses(l) ==
    [length |-> AList_length(l), currPos |-> AList_currPos(l),
     isEmpty |-> AList_isEmpty(l), getValue |-> AList_getValue(l),
     elements |-> AList_elements(l), remove |-> AList_remove(l).res,
     moveToPos |-> [pos \in Positions |-> AList_moveToPos(l, pos).res]]
LList_responses(l, h) ==
    [length |-> LList_length(l), currPos |-> LList_currPos(l, h),
     isEmpty |-> LList_isEmpty(l), getValue |-> LList_getValue(l, h),
     elements |-> LList_elements(l, h), remove |-> LList_remove(l, h).res,
     moveToPos |-> [pos \in Positions |-> LList_moveToPos(l, h, pos).res]]

\* C11: clear() on an AList or LList in any reachable state leaves
\* length() == 0, currPos() == 0 and isEmpty() true, and from then on the
\* list responds to every further sequence of List calls exactly as a freshly
\* constructed empty list does.
C11_ClearIsFresh ==
    /\ (ListsLive /\ ~SecondLists) =>
           LET a == AList_clear(alist)
               r == LList_clear(llist, heap)
           IN  /\ AList_length(a) = 0 /\ AList_currPos(a) = 0 /\ AList_isEmpty(a)
               /\ LList_length(r.list) = 0 /\ LList_currPos(r.list, r.heap) = 0
               /\ LList_isEmpty(r.list)
               /\ AList_elements(a) = <<>> /\ LList_elements(r.list, r.heap) = <<>>
    /\ SecondLists =>
           /\ AList_responses(alist) = AList_responses(alist2)
           /\ LList_responses(llist, heap) = LList_responses(llist2, heap)

\* Lists that were cleared while holding several elements with the cursor
\* inside, and fresh ones, after the same calls: several elements, the
\* cursor inside, and the same answers.
C11_Witness ==
    /\ SecondLists
    /\ AList_capacity(alist) # AList_capacity(alist2)
    /\ ALen > 1 /\ APos = 1 /\ AElems[1] # AElems[2]
    /\ AList_responses(alist) = AList_responses(alist2)
    /\ LList_responses(llist, heap) = LList_responses(llist2, heap)
    /\ llist.head_ # llist2.head_

\* C12: copy-constructing or copy-assigning an AList or LList from a source
\* in any state reached by the List calls (the assignment target may hold
\* other elements beforehand) gives a list with the length(), the elements
\* in order and the currPos() of the source, and leaves the source unchanged.
C12_Copy ==
    ListsLive =>
        LET ac == AList_copy(alist)
            lc == LList_copy(llist, heap)
        IN  /\ AList_length(ac) = ALen
            /\ AList_elements(ac) = AElems
            /\ AList_currPos(ac) = APos
            /\ lc.res = Void
            /\ LList_length(lc.list) = LLen
            /\ LList_elements(lc.list, lc.heap) = LElems
            /\ LList_currPos(lc.list, lc.heap) = LPos
            /\ LList_observed(llist, lc.heap) = LList_observed(llist, heap)
            /\ \A s \in PreSeqs :
                   LET aa == AList_copyAssign(AList_target(s), alist, FALSE)
                       t == LList_target(heap, s)
                       la == LList_copyAssign(t.list, llist, t.heap, FALSE)
                   IN  /\ AList_length(aa) = ALen
                       /\ AList_elements(aa) = AElems
                       /\ AList_currPos(aa) = APos
                       /\ la.res = Void
                       /\ LList_length(la.list) = LLen
                       /\ LList_elements(la.list, la.heap) = LElems
                       /\ LList_currPos(la.list, la.heap) = LPos
                       /\ LList_observed(llist, la.heap) = LList_observed(llist, heap)

\* The source holds different elements with the cursor inside; the copy and
\* the target assigned to, which held one other element, have its elements
\* and its cursor.
C12_Witness ==
    /\ ListsLive
    /\ ALen > 2 /\ APos = 2 /\ LPos = 2
    /\ AElems[1] # AElems[2]
    /\ LList_currPos(LList_copy(llist, heap).list, LList_copy(llist, heap).heap) = 2
    /\ AList_getValue(AList_copy(alist)) = AVal
    /\ LET t == LList_target(heap, <<MaxElem>>)
           la == LList_copyAssign(t.list, llist, t.heap, FALSE)
       IN  /\ LElems[1] # MaxElem
           /\ LList_elements(t.list, t.heap) = <<MaxElem>>
           /\ LList_elements(la.list, la.heap) = LElems
           /\ LList_getValue(la.list, la.heap) = LVal

\* The nodes of a list: its header and every node linked behind it.
RECURSIVE ChainNodes(_, _)
ChainNodes(h, n) == IF n = Null THEN {} ELSE {n} \cup ChainNodes(h, h[n].next)
LList_nodes(l, h) == ChainNodes(h, l.head_)

\* C13: copies share no storage: after b is made a copy of a (by
\* construction or assignment, for AList, LList and Vector), any sequence of
\* mutating calls on b (insert, append, remove, clear, cursor moves,
\* push_back, pop_back, resize, element writes) leaves a's elements,
\* length/size and cursor unchanged, and any sequence on a leaves b unchanged.
C13_CopiesShareNoStorage ==
    /\ SecondLists =>
           /\ LList_nodes(llist, heap) \cap LList_nodes(llist2, heap) = {}
           /\ LList_observed(Other(llist, llist2), heap) = kept.llist
           /\ AList_observed(Other(alist, alist2)) = kept.alist
    /\ SecondVector =>
           Vector_observed(Other(vec, vec2)) = kept.vec

\* Two calls were made on the copy of a list of different elements: the copy
\* holds other elements now, the original shows what it showed at the copy.
C13_Witness ==
    /\ SecondLists
    /\ kept.called = "copy" /\ ops >= 2
    /\ Len(kept.llist.elements) = 2
    /\ kept.llist.elements[1] # kept.llist.elements[2]
    /\ LList_elements(llist, heap) = kept.llist.elements
    /\ LList_elements(llist2, heap) # kept.llist.elements
    /\ LList_length(llist2) = 1
    /\ AList_elements(alist2) = LList_elements(llist2, heap)

\* C14: after an LList a is moved into b (move construction or move
\* assignment), b holds a's former elements, order and cursor position,
\* a.length() == 0, and a remains usable: a.append(x), a.insert(x),
\* a.getValue() and a.moveToStart() dereference no null pointer, and after
\* a.append(x) the list a has length 1 with x as its only element.
C14_MovedFromUsable ==
    ListsLive =>
        LET m == LList_moveFrom(llist)
            a == m.other
        IN  /\ LList_observed(m.list, heap) = LList_observed(llist, heap)
            /\ LList_length(a) = 0
            /\ LList_getValue(a, heap) # NullDeref
            /\ LList_getValue(LList_moveToStart(a), heap) # NullDeref
            /\ \A x \in Elems :
                   LET r == LList_append(a, heap, x)
                   IN  /\ r.res = Void
                       /\ LList_insert(a, heap, x).res = Void
                       /\ LList_length(r.list) = 1
                       /\ LList_elements(r.list, r.heap) = <<x>>

\* C15: after an AList a is moved into b (move construction or move
\* assignment), b has a's former elements, length, capacity and cursor, and
\* a has capacity() == 0, length() == 0 and currPos() == 0; a.append(x) or
\* a.insert(x) then succeeds, growing a's capacity from 0 to 1 and storing
\* x inside the newly allocated buffer.
C15_AListMove ==
    ListsLive =>
        \A s \in PreSeqs, assign \in BOOLEAN :
            LET m == IF assign
                     THEN AList_moveAssign(AList_target(s), alist, FALSE)
                     ELSE AList_moveFrom(alist)
                a == m.other
            IN  /\ AList_observed(m.list) = AList_observed(alist)
                /\ AList_capacity(a) = 0
                /\ AList_length(a) = 0
                /\ AList_currPos(a) = 0
                /\ \A x \in Elems :
                       LET ap == AList_append(a, x)
                           ai == AList_insert(a, x)
                       IN  /\ AList_capacity(ap) = 1 /\ AList_capacity(ai) = 1
                           /\ AList_length(ap) = 1 /\ AList_length(ai) = 1
                           /\ Len(ap.listArray_) = 1 /\ Len(ai.listArray_) = 1
                           /\ ap.listArray_[1] = x /\ ai.listArray_[1] = x
                           /\ AList_elements(ap) = <<x>>
                           /\ AList_elements(ai) = <<x>>

\* A list of several elements with the cursor inside and a grown buffer is
\* moved from: it is left with no buffer, and append(x) allocates one slot.
C15_Witness ==
    /\ ListsLive
    /\ ALen > 1 /\ APos > 0 /\ ACap > ALen
    /\ AList_moveFrom(alist).list = alist
    /\ AList_moveFrom(alist).other.listArray_ = <<>>
    /\ \E x \in Elems :
           AList_append(AList_moveFrom(alist).other, x).listArray_ = <<x>>

\* The elements by operator[]: v[0] .. v[size() - 1].
Vector_indexed(v) == [i \in 1..Vector_size(v) |-> Vector_index(v, i - 1)]

\* Indices tried for at(): inside and outside size(), inside and outside capacity().
Indices == Positions \cup {VCap, VCap + 1}

\* C16: in every state of a Vector reachable by its constructors, copy
\* construction, copy assignment, move, push_back, pop_back, resize, reserve,
\* shrink_to_fit, clear and swap, size() <= capacity() and the owned buffer
\* has exactly capacity() slots (no buffer only when capacity() == 0), so the
\* slot push_back writes and every slot at/front/back read lie inside it.
C16_BufferMatchesCapacity ==
    VectorLive =>
        /\ VSize <= VCap
        /\ Len(vec.items_) = VCap
        /\ \A x \in Elems : Vector_push_back(vec, x).res = Void
        /\ \A i \in 0..(VSize - 1) : Vector_index(vec, i) # NullDeref

\* C17: at(i) throws out_of_range exactly when i >= size() and otherwise
\* returns the element at index i; front() and back() throw exactly when
\* size() == 0 and otherwise return the elements at 0 and size() - 1; an
\* index made invalid by pop_back, a smaller resize or clear is rejected by
\* at() though it is still below capacity().
C17_AtFrontBack ==
    VectorLive =>
        /\ \A i \in Indices :
               /\ (Vector_at(vec, i) = OutOfRange) <=> (i >= VSize)
               /\ i < VSize => Vector_at(vec, i) = Vector_index(vec, i)
        /\ (Vector_front(vec) = OutOfRange) <=> (VSize = 0)
        /\ (Vector_back(vec) = OutOfRange) <=> (VSize = 0)
        /\ VSize > 0 => /\ Vector_front(vec) = Vector_index(vec, 0)
                        /\ Vector_back(vec) = Vector_index(vec, VSize - 1)
        /\ VSize > 0 => /\ VSize - 1 < Vector_capacity(Vector_pop_back(vec).vec)
                        /\ Vector_at(Vector_pop_back(vec).vec, VSize - 1) = OutOfRange
        /\ \A count \in ResizeArgs :
               (count < VSize /\ Vector_resize(vec, count).res = Void) =>
                   \A i \in count..(VSize - 1) :
                       /\ i < Vector_capacity(Vector_resize(vec, count).vec)
                       /\ Vector_at(Vector_resize(vec, count).vec, i) = OutOfRange
        /\ \A i \in 0..(VSize - 1) :
               /\ i < Vector_capacity(Vector_clear(vec))
               /\ Vector_at(Vector_clear(vec), i) = OutOfRange

\* Two different elements in a buffer with room to spare: at() returns each,
\* and after pop_back() the last index is rejected.
C17_Witness ==
    /\ VectorLive
    /\ VSize = 2 /\ VCap > 2
    /\ Vector_front(vec).status = "ok" /\ Vector_back(vec).status = "ok"
    /\ Vector_front(vec) # Vector_back(vec)
    /\ Vector_at(vec, 1) = Vector_back(vec)
    /\ Vector_at(vec, 2) = OutOfRange
    /\ Vector_at(Vector_pop_back(vec).vec, 1) = OutOfRange

\* C18: pop_back() throws out_of_range exactly when size() == 0, leaving
\* size() at 0; otherwise size() drops by one, capacity() is unchanged and
\* the elements below the new size are unchanged (so after push_back(1);
\* push_back(2) the third of three pop_back calls throws and size stays 0).
C18_PopBack ==
    VectorLive =>
        LET p == Vector_pop_back(vec)
        IN  /\ (p.res = OutOfRange) <=> (VSize = 0)
            /\ (p.res = Void) <=> (VSize > 0)
            /\ VSize = 0 => Vector_size(p.vec) = 0
            /\ VSize > 0 =>
                   /\ Vector_size(p.vec) = VSize - 1
                   /\ Vector_capacity(p.vec) = VCap
                   /\ \A i \in 0..(VSize - 2) :
                          Vector_index(p.vec, i) = Vector_index(vec, i)
            /\ (VSize = 0 /\ Vector_push_back(vec, 1).res = Void) =>
                   LET v1 == Vector_push_back(vec, 1).vec
                       v2 == Vector_push_back(v1, 2).vec
                       p1 == Vector_pop_back(v2)
                       p2 == Vector_pop_back(p1.vec)
                       p3 == Vector_pop_back(p2.vec)
                   IN  /\ p1.res = Void /\ p2.res = Void
                       /\ p3.res = OutOfRange
                       /\ Vector_size(p3.vec) = 0

\* The vector is empty after two elements were pushed and popped (they are
\* still in the buffer): pop_back() throws.
C18_Witness ==
    /\ VectorLive
    /\ VSize = 0 /\ VCap >= 2
    /\ Len(vec.items_) >= 2 /\ vec.items_[1] = 1 /\ vec.items_[2] = 2
    /\ Vector_pop_back(vec).res = OutOfRange
    /\ Vector_size(Vector_pop_back(vec).vec) = 0

\* C19: push_back(x) raises size() by one, stores x at index old size() and
\* leaves every earlier element at its index with its value, also when the
\* call reallocates the buffer; hence after pushing x0..x(n-1) onto an empty
\* vector, v[i] == xi for every i < n.
C19_PushBack ==
    VectorLive =>
        \A x \in Elems :
            LET r == Vector_push_back(vec, x)
            IN  /\ r.res = Void
                /\ Vector_size(r.vec) = VSize + 1
                /\ Vector_index(r.vec, VSize) = Ok(x)
                /\ \A i \in 0..(VSize - 1) :
                       Vector_index(r.vec, i) = Vector_index(vec, i)

\* C20: reserve(n) never lowers capacity(): if n > capacity() the capacity
\* becomes at least n, otherwise it is unchanged; size() and every element
\* (value and index) are unchanged in both cases.
C20_Reserve ==
    VectorLive =>
        \A n \in ReserveArgs \cup {VCap + 1} :
            LET r == Vector_reserve(vec, n)
            IN  /\ Vector_capacity(r) >= VCap
                /\ n > VCap => Vector_capacity(r) >= n
                /\ n <= VCap => Vector_capacity(r) = VCap
                /\ Vector_size(r) = VSize
                /\ Vector_indexed(r) = Vector_indexed(vec)
                /\ Vector_elements(r) = VElems

\* A full buffer of different elements: reserve(capacity() + 1) reallocates
\* and the elements stay; reserve(1) changes nothing.
C20_Witness ==
    /\ VectorLive
    /\ VSize = 2 /\ VCap = 2
    /\ VElems[1] # VElems[2]
    /\ Vector_capacity(Vector_reserve(vec, 3)) = 3
    /\ Vector_elements(Vector_reserve(vec, 3)) = VElems
    /\ Vector_reserve(vec, 1) = vec

\* C21 as stated: after shrink_to_fit() capacity() equals max(size(), 1), so
\* capacity() == size() whenever size() > 0 and capacity() is never left at
\* 0; size() and all elements are unchanged.
C21_ShrinkToFitKeepsOneSlot ==
    VectorLive =>
        LET r == Vector_shrink_to_fit(vec)
        IN  /\ Vector_capacity(r) = IF VSize > 1 THEN VSize ELSE 1
            /\ VSize > 0 => Vector_capacity(r) = Vector_size(r)
            /\ Vector_capacity(r) # 0
            /\ Vector_size(r) = VSize
            /\ Vector_elements(r) = VElems

\* C21 amended: after shrink_to_fit() capacity() equals size(); for an empty
\* vector the buffer is released and capacity() is 0; size() and all
\* elements are unchanged.
C21_ShrinkToFit ==
    VectorLive =>
        LET r == Vector_shrink_to_fit(vec)
        IN  /\ Vector_capacity(r) = VSize
            /\ VSize = 0 => r.items_ = MakeArray(0)
            /\ Vector_size(r) = VSize
            /\ Vector_elements(r) = VElems
            /\ Vector_indexed(r) = Vector_indexed(vec)

\* Two different elements in a larger buffer: shrink_to_fit() reallocates to
\* two slots and the elements stay.
C21_Witness ==
    /\ VectorLive
    /\ VSize = 2 /\ VCap > 2
    /\ VElems[1] # VElems[2]
    /\ Vector_capacity(Vector_shrink_to_fit(vec)) = 2
    /\ Vector_elements(Vector_shrink_to_fit(vec)) = VElems

\* C22: resize(n) sets size() to n and keeps the elements at indices below
\* min(old size, n); when n > old size every element at an index in
\* [old size, n) equals the default value T(), also when those slots earlier
\* held other values; when n < old size the elements at indices >= n are no
\* longer accessible through at().
C22_Resize ==
    VectorLive =>
        \A n \in ResizeArgs :
            LET r == Vector_resize(vec, n)
            IN  /\ r.res = Void
                /\ Vector_size(r.vec) = n
                /\ \A i \in 0..(VSize - 1) :
                       i < n => Vector_at(r.vec, i) = Vector_at(vec, i)
                /\ \A i \in VSize..(n - 1) : Vector_at(r.vec, i) = Ok(DefaultE)
                /\ \A i \in n..(VSize - 1) : Vector_at(r.vec, i) = OutOfRange

\* C23: clear() sets size() to 0 and leaves capacity() unchanged, so that the
\* next capacity() push_back calls after a clear do not change capacity().
C23_Clear ==
    VectorLive =>
        LET c == Vector_clear(vec)
        IN  /\ Vector_size(c) = 0
            /\ Vector_empty(c)
            /\ Vector_capacity(c) = VCap
            /\ \A k \in 0..VCap, x \in Elems :
                   Vector_capacity(Vector_pushes(c, k, x)) = VCap

\* A full vector of two elements is cleared: the next two push_back calls
\* refill the same two slots, and only a third one grows the buffer.
C23_Witness ==
    /\ VectorLive
    /\ VSize = 2 /\ VCap = 2
    /\ Vector_size(Vector_pushes(Vector_clear(vec), 2, 1)) = 2
    /\ Vector_capacity(Vector_pushes(Vector_clear(vec), 2, 1)) = 2
    /\ Vector_capacity(Vector_pushes(Vector_clear(vec), 3, 1)) > 2

\* A second vector of the program: as constructed, and after one or two push_back calls.
VectorPartners ==
    FreshVectors
        \cup {Vector_pushes(Vector_new(c), k, x) :
                  c \in VectorInitCaps, k \in 1..2, x \in Elems}

\* C24: a.swap(b) exchanges size, capacity and element sequences exactly (a
\* ends with b's former state and b with a's), and applying swap twice
\* restores both vectors to their original states.
C24_Swap ==
    VectorLive =>
        \A b \in VectorPartners :
            LET once == Vector_swap(vec, b)
                twice == Vector_swap(once.vec, once.other)
            IN  /\ Vector_observed(once.vec) = Vector_observed(b)
                /\ Vector_observed(once.other) = Vector_observed(vec)
                /\ Vector_indexed(once.vec) = Vector_indexed(b)
                /\ Vector_indexed(once.other) = Vector_indexed(vec)
                /\ Vector_observed(twice.vec) = Vector_observed(vec)
                /\ Vector_observed(twice.other) = Vector_observed(b)
                /\ twice.vec = vec /\ twice.other = b

\* Two vectors of different sizes, capacities and elements are swapped.
C24_Witness ==
    /\ VectorLive
    /\ VSize = 2 /\ VCap = 2 /\ VElems[1] # VElems[2]
    /\ \E b \in VectorPartners :
           /\ Vector_size(b) = 1 /\ Vector_capacity(b) > 2
           /\ Vector_elements(b) # SubSeq(VElems, 1, 1)
           /\ Vector_elements(Vector_swap(vec, b).vec) = Vector_elements(b)
           /\ Vector_capacity(Vector_swap(vec, b).vec) = Vector_capacity(b)
           /\ Vector_elements(Vector_swap(vec, b).other) = VElems

\* C25: copy-constructing or copy-assigning a Vector from a source in any
\* reachable state yields a vector whose size(), capacity() and elements
\* (index by index) equal the source's, and leaves the source unchanged (the
\* source of a self-assignment is the target itself).
C25_VectorCopy ==
    VectorLive =>
        /\ Vector_observed(Vector_copy(vec)) = Vector_observed(vec)
        /\ Vector_indexed(Vector_copy(vec)) = Vector_indexed(vec)
        /\ \A target \in VectorPartners :
               LET c == Vector_copyAssign(target, vec, FALSE)
               IN  /\ Vector_observed(c) = Vector_observed(vec)
                   /\ Vector_indexed(c) = Vector_indexed(vec)
        /\ Vector_copyAssign(vec, vec, TRUE) = vec

\* A vector of two different elements in a larger buffer is copied, by
\* construction and by assignment over a target that held something else.
C25_Witness ==
    /\ VectorLive
    /\ VSize = 2 /\ VCap > 2 /\ VElems[1] # VElems[2]
    /\ Vector_elements(Vector_copy(vec)) = VElems
    /\ Vector_capacity(Vector_copy(vec)) = VCap
    /\ \E target \in VectorPartners :
           /\ Vector_size(target) = 1
           /\ Vector_elements(Vector_copyAssign(target, vec, FALSE)) = VElems

\* C26: after a Vector a is moved into b (by move construction or move
\* assignment), b has a's former size and elements, a.size() == 0 and
\* a.capacity() == 0, and a is usable again: a subsequent a.push_back(x)
\* allocates a buffer and leaves a with size 1 and a[0] == x.
C26_VectorMove ==
    VectorLive =>
        \A m \in {Vector_moveFrom(vec)}
                     \cup {Vector_moveAssign(b, vec, FALSE) : b \in VectorPartners} :
            /\ Vector_size(m.vec) = VSize
            /\ Vector_elements(m.vec) = VElems
            /\ Vector_indexed(m.vec) = Vector_indexed(vec)
            /\ Vector_size(m.other) = 0
            /\ Vector_capacity(m.other) = 0
            /\ \A x \in Elems :
                   LET p == Vector_push_back(m.other, x)
                   IN  /\ p.res = Void
                       /\ Len(p.vec.items_) = Vector_capacity(p.vec)
                       /\ Vector_capacity(p.vec) > 0
                       /\ Vector_size(p.vec) = 1
                       /\ Vector_index(p.vec, 0) = Ok(x)
                       /\ Vector_at(p.vec, 0) = Ok(x)

\* A vector of two different elements is moved into a new vector and into
\* one that held something else; the source is empty afterwards.
C26_Witness ==
    /\ VectorLive
    /\ VSize = 2 /\ VElems[1] # VElems[2]
    /\ Vector_elements(Vector_moveFrom(vec).vec) = VElems
    /\ Vector_moveFrom(vec).other # vec
    /\ Vector_capacity(Vector_moveFrom(vec).other) = 0
    /\ \E b \in VectorPartners :
           /\ Vector_size(b) = 1
           /\ Vector_elements(Vector_moveAssign(b, vec, FALSE).vec) = VElems
           /\ Vector_size(Vector_push_back(Vector_moveAssign(b, vec, FALSE).other, 1).vec) = 1

\* The nodes met from n by following next, in order, up to a null next, a
\* node met before or a node that is not allocated.
RECURSIVE Chain(_, _, _)
Chain(h, n, seen) ==
    IF n = Null \/ n \in seen \/ n \notin DOMAIN h
    THEN <<>>
    ELSE <<n>> \o Chain(h, h[n].next, seen \cup {n})

\* C27: in every state reached from a constructed list by clear, insert,
\* append, remove, the cursor moves, and copy construction/assignment, head_
\* is a non-null header node, the chain from head_ is acyclic and ends in a
\* node whose next is null, tail_ is exactly that last node (the header when
\* the list is empty), curr_ is one of the nodes on the chain, and size_
\* equals the number of nodes after the header.
C27_ChainInvariant ==
    \A o \in live \cap Slots :
        LET l == Slot(o)
            path == Chain(heap, l.head_, {})
        IN  /\ l.head_ # Null
            /\ l.head_ \in DOMAIN heap
            /\ heap[path[Len(path)]].next = Null
            /\ l.tail_ = path[Len(path)]
            /\ l.size_ = 0 => l.tail_ = l.head_
            /\ \E i \in 1..Len(path) : path[i] = l.curr_
            /\ l.size_ = Len(path) - 1

\* Two lists: one of two elements with the cursor between them, and a copy
\* taken when it held one element.
C27_Witness ==
    /\ live = Slots
    /\ llist.size_ = 2
    /\ llist.curr_ \notin {llist.head_, llist.tail_}
    /\ llist2.size_ = 1
    /\ llist2.tail_ # llist2.head_
    /\ llist2.curr_ = llist2.tail_

\* The nodes reachable from the head_ of the list in slot o.
Reachable(o) == {Chain(heap, Slot(o).head_, {})[i] :
                     i \in 1..Len(Chain(heap, Slot(o).head_, {}))}

\* C28: over any sequence of construction, insert, append, remove, clear,
\* copy construction, copy assignment, move construction, move assignment
\* and destruction on a set of LList objects, the set of allocated nodes is
\* at every step exactly the set of nodes reachable from the head_ of some
\* live list: no node is leaked, no node is freed twice (each chain is
\* acyclic and owned by one list), no freed node is dereferenced (no pointer
\* of a live list or of an allocated node names a node that is not
\* allocated), and no node is reachable from two lists.
C28_NodeLifetime ==
    /\ DOMAIN heap = UNION {Reachable(o) : o \in live \cap Slots}
    /\ \A o \in live \cap Slots :
           /\ {Slot(o).head_, Slot(o).tail_, Slot(o).curr_} \subseteq DOMAIN heap \cup {Null}
           /\ Slot(o).head_ # Null =>
                  LET path == Chain(heap, Slot(o).head_, {})
                  IN  heap[path[Len(path)]].next = Null
    /\ \A n \in DOMAIN heap : heap[n].next \in DOMAIN heap \cup {Null}
    /\ live = Slots => Reachable("llist") \cap Reachable("llist2") = {}

\* A list of two elements was moved out and back by assignment: the list it
\* went through is left without nodes and every allocated node is owned once.
C28_Witness ==
    /\ live = Slots
    /\ ops = MaxOps
    /\ llist.size_ = 2
    /\ llist2.head_ = Null
    /\ DOMAIN heap = Reachable("llist")
    /\ Cardinality(DOMAIN heap) = 3

\* insert(x) and append(x) on the AList.
Additions == {AList_insert(alist, x) : x \in Elems} \cup {AList_append(alist, x) : x \in Elems}

\* C29: capacity() >= length() in every reachable state; insert and append
\* change capacity only when length() == capacity() beforehand, and then the
\* new capacity is 2*old, or old+1 when 2*old computed modulo 2^w is not
\* greater than old (old == 0, or multiplicative overflow); the new capacity
\* is strictly greater than the old one, so the slot at index length()
\* written by the operation lies inside the buffer.
C29_AListGrowth ==
    "alist" \in live =>
        /\ ACap >= ALen
        /\ ALen # ACap => \A r \in Additions : AList_capacity(r) = ACap
        /\ ALen = ACap =>
               /\ AList_capacity(AList_ensureCapacity(alist)) =
                      IF (2 * ACap) % SizeModulus > ACap
                      THEN (2 * ACap) % SizeModulus
                      ELSE ACap + 1
               /\ AList_capacity(AList_ensureCapacity(alist)) > ACap
               /\ AList_hasRoom(alist)
               /\ \A r \in Additions :
                      AList_capacity(r) = AList_capacity(AList_ensureCapacity(alist))

\* C30 as stated: push_back changes capacity() only when size() == capacity()
\* beforehand, and then by the same policy as the array-backed list: for
\* every starting capacity c, the capacity a full Vector grows to equals the
\* capacity a full AList of capacity c grows to.
C30_SameGrowthAsAList ==
    "vec" \in live =>
        \A x \in Elems :
            LET grown == Vector_capacity(Vector_push_back(vec, x).vec)
            IN  /\ VSize # VCap => grown = VCap
                /\ VSize = VCap =>
                       grown = AList_capacity(AList_ensureCapacity(FullAList(VCap)))

\* C30 amended: push_back changes capacity() only when size() == capacity()
\* beforehand; a full Vector of capacity c > 0 grows to the capacity a full
\* AList of capacity c grows to (double, with +1 when doubling does not
\* increase it), and a Vector of capacity 0 grows to DEFAULT_CAPACITY (16)
\* where an AList of capacity 0 grows to 1.
C30_VectorGrowth ==
    "vec" \in live =>
        \A x \in Elems :
            LET grown == Vector_capacity(Vector_push_back(vec, x).vec)
                listGrown == AList_capacity(AList_ensureCapacity(FullAList(VCap)))
            IN  /\ VSize # VCap => grown = VCap
                /\ (VSize = VCap /\ VCap > 0) => grown = listGrown
                /\ VCap = 0 => grown = Vector_DEFAULT_CAPACITY /\ listGrown = 1

\* A full vector whose capacity doubled does not fit the size type: it and
\* the full AList of that capacity both grow by one slot.
C30_Witness ==
    /\ "vec" \in live
    /\ VSize = VCap
    /\ 2 * VCap = SizeModulus
    /\ Vector_push_back(vec, 1).res = Void
    /\ Vector_capacity(Vector_push_back(vec, 1).vec) = VCap + 1
    /\ AList_capacity(AList_append(FullAList(VCap), 1)) = VCap + 1

\* C31: LList::prev() and LList::currPos() terminate in every state reached
\* through the List operations: the cursor node lies on the chain from the
\* header, so the walk from the header reaches it within length() steps, each
\* through a non-null node (prev() stops one node earlier, at the node whose
\* next is the cursor); after prev() from position p > 0, currPos() == p - 1.
C31_WalksTerminate ==
    ListsLive =>
        LET path == Chain(heap, llist.head_, {})
        IN  /\ \E k \in 0..LLen :
                   /\ k < Len(path)
                   /\ path[k + 1] = llist.curr_
                   /\ LList_currPos(llist, heap) = k
                   /\ k > 0 =>
                          /\ PrevWalk(heap, llist.head_, llist.curr_) = path[k]
                          /\ LList_currPos(LList_prev(llist, heap), heap) = k - 1
            /\ llist.curr_ = llist.head_ => LList_prev(llist, heap) = llist

\* The cursor is at the end of a list of MaxLen elements: both walks take
\* the longest way there is, and prev() stops at the node before the last.
C31_Witness ==
    /\ ListsLive
    /\ LLen = MaxLen
    /\ LPos = MaxLen
    /\ LList_currPos(LList_prev(llist, heap), heap) = MaxLen - 1
    /\ heap[LList_prev(llist, heap).curr_].next = llist.curr_

C33_InsertRemove ==
    ListsLive =>
        \A x \in Elems :
            LET ar == AList_remove(AList_insert(alist, x))
                li == LList_insert(llist, heap, x)
                lr == LList_remove(li.list, li.heap)
            IN  /\ ar.res = Ok(x)
                /\ AList_elements(ar.list) = AElems
                /\ AList_length(ar.list) = ALen
                /\ AList_currPos(ar.list) = APos
                /\ lr.res = Ok(x)
                /\ LList_elements(lr.list, lr.heap) = LElems
                /\ LList_length(lr.list) = LLen
                /\ LList_currPos(lr.list, lr.heap) = LPos
                /\ lr.list.tail_ = llist.tail_
                /\ \A y \in Elems :
                       LET la == LList_append(lr.list, lr.heap, y)
                       IN  LList_elements(la.list, la.heap) = Append(LElems, y)

\* The cursor is at the end of two elements, so insert(x) makes the new node
\* the tail and the AList, which was full, grows; remove() undoes both but
\* for the capacity.
C33_Witness ==
    /\ ListsLive
    /\ LLen = 2 /\ LPos = 2
    /\ ALen = ACap
    /\ LList_insert(llist, heap, 1).list.tail_ # llist.tail_
    /\ LList_remove(LList_insert(llist, heap, 1).list, LList_insert(llist, heap, 1).heap).list.tail_
           = llist.tail_
    /\ AList_capacity(AList_remove(AList_insert(alist, 1)).list) > ACap
    /\ AList_elements(AList_remove(AList_insert(alist, 1)).list) = AElems

\* C34: when the cursor of an AList or LList is at the end (currPos() ==
\* length(), so getValue() fails), append(x) leaves currPos() unchanged but
\* gives the cursor a current element: immediately afterwards currPos() ==
\* length() - 1 and getValue() returns x.
C34_AppendAtEnd ==
    ListsLive =>
        \A x \in Elems :
            LET a == AList_append(alist, x)
                la == LList_append(llist, heap, x)
            IN  /\ APos = ALen =>
                       /\ AVal = OutOfRange
                       /\ AList_currPos(a) = APos
                       /\ AList_currPos(a) = AList_length(a) - 1
                       /\ AList_getValue(a) = Ok(x)
                /\ LPos = LLen =>
                       /\ LVal = OutOfRange
                       /\ LList_currPos(la.list, la.heap) = LPos
                       /\ LList_currPos(la.list, la.heap) = LList_length(la.list) - 1
                       /\ LList_getValue(la.list, la.heap) = Ok(x)

\* The cursor is at the end of two elements and there is no current element;
\* the appended element becomes current on both lists.
C34_Witness ==
    /\ ListsLive
    /\ ALen = 2 /\ APos = 2 /\ AVal = OutOfRange
    /\ LLen = 2 /\ LPos = 2 /\ LVal = OutOfRange
    /\ AList_getValue(AList_append(alist, MaxElem)) = Ok(MaxElem)
    /\ LList_getValue(LList_append(llist, heap, MaxElem).list,
                      LList_append(llist, heap, MaxElem).heap) = Ok(MaxElem)

\* The text that shows the integers of s front to back: each followed by a
\* space, then the end of the line ("0 1 2 3 \n" in the tests).
RECURSIVE Printed(_)
Printed(s) ==
    IF s = <<>> THEN "\n" ELSE ToString(Head(s)) \o " " \o Printed(Tail(s))

\* C35: the standalone LinkedList refines a reference integer sequence under
\* every interleaving of its operations: push_front prepends, push_back
\* appends, pop_front drops the first and pop_back drops the last element,
\* both pops are no-ops on an empty list, empty() is true exactly when the
\* sequence is empty, print() emits the sequence front to back, and
\* head/tail always designate the first and last node (both null exactly
\* when empty, tail->next null).  kept is the reference sequence, which
\* every call changes as the claim says; the nodes from head hold it.
C35_RefinesSequence ==
    "linked" \in live =>
        LET path == Chain(heap, linked.head, {})
        IN  /\ Len(path) = Len(kept)
            /\ \A i \in 1..Len(path) : heap[path[i]].data = kept[i]
            /\ LinkedList_empty(linked) <=> kept = <<>>
            /\ linked.head = Null <=> kept = <<>>
            /\ linked.tail = Null <=> kept = <<>>
            /\ kept # <<>> =>
                   /\ linked.head = path[1]
                   /\ linked.tail = path[Len(path)]
                   /\ heap[linked.tail].next = Null
            /\ kept = <<>> =>
                   /\ LinkedList_pop_front(linked, heap) = [list |-> linked, heap |-> heap]
                   /\ LinkedList_pop_back(linked, heap) = [list |-> linked, heap |-> heap]
            /\ LinkedList_print(linked, heap) = Printed(kept)

\* The list of the test InterleavedOperationsMaintainCorrectEnds after its
\* six calls: it prints "0 1 \n", and its first node was allocated last.
C35_Witness ==
    /\ "linked" \in live
    /\ kept = <<0, 1>>
    /\ LinkedList_print(linked, heap) = "0 1 \n"
    /\ linked.head > linked.tail
    /\ ~LinkedList_empty(linked)

====
